---------------------------- MODULE Spec2Model ----------------------------
(***************************************************************************)
(* Model of Summit, the Apex disk image utility: the Apple II disk image   *)
(* (block-addressed read/write with its bounds check), the Apex directory  *)
(* (1024-byte buffer of parallel arrays, derived free-block bitmap,        *)
(* first-fit allocation, directory-slot allocation), the directory entry   *)
(* mutators, Disk::initialize and the insert_file / rm glue.               *)
(*                                                                         *)
(* Representation.  The directory buffer is modelled byte for byte, with   *)
(* the offsets of DirectoryOffset: it is kept as its four 256-byte blocks, *)
(* and Byte / SetByte address it by byte offset 0..1023.                   *)
(* The disk image is a function from block number to block contents.  The  *)
(* eight blocks of the two directory areas (9..16) hold 256 bytes each;    *)
(* every other block holds one byte value v and stands for the 256-byte    *)
(* block filled with v (the file data written by the model is always such  *)
(* a uniformly filled block).  BlockBytes and StoreBlock convert between   *)
(* the two, so file data written over a directory block and then read as a *)
(* directory decodes as the bytes it is.                                   *)
(***************************************************************************)
EXTENDS Integers, Sequences, FiniteSets, TLC

VARIABLES
  image,    \* AppleII::DiskImage::m_image, by block
  dirs,     \* the live Apex::Directory objects, by handle
  lastOp,   \* what the last operation was, and how it ended
  nops,     \* number of operations performed so far
  fault,    \* "none", or how the process left defined behaviour
  m_format, \* AppleII::DiskImage::m_format
  files,    \* the host files: src is read by load, dst is written by save
  names,    \* a filespec given on the command line and the Filename made of it
  dates     \* a year, month and day given and the Date made of them

vars == <<image, dirs, lastOp, nops, fault, m_format, files, names, dates>>

---------------------------------------------------------------------------
(* Program constants.                                                      *)

BYTES_PER_BLOCK == 256
BLOCKS_PER_DIRECTORY == 4
ENTRIES_PER_DIRECTORY == 48
FILENAME_CHARS == 8
EXTENSION_CHARS == 3
MAX_TITLE_CHARS == 32

\* DirectoryOffset
FILENAME == 0
STATUS == (FILENAME_CHARS + EXTENSION_CHARS) * ENTRIES_PER_DIRECTORY
FIRST_BLOCK == 12 * ENTRIES_PER_DIRECTORY
LAST_BLOCK == 14 * ENTRIES_PER_DIRECTORY
DIRCHG == 841
PMAXB == 843
PRNAME == 845
TITLE == 856
VOLUME == 916
DIRDAT == 918
FDATE == 920
FLAG_LOCK == 1019

\* DirectoryEntry::Status
INVALID == 0
VALID == 1
DISK_ERASED == 229
REPLACE == 254
TENTATIVE == 255

\* disk_area_block_range
BOOT_BEGIN == 0
FILE_AREA_BEGIN == 17

\* Disk::directory_start_block
PRIMARY == 9
BACKUP == 13

\* geometry[APEX_ORDER]
BytesPerSector == 256
Sectors == 16
Heads == 1
Cylinders == 35

\* boost::dynamic_bitset::npos is std::size_t(-1); the model checker's
\* integers are 32 bits wide, so npos is its largest integer, which like
\* std::size_t(-1) is above every 16-bit block number and block count
NPOS == 2147483647
\* std::uint16_t and std::uint8_t widths
U16 == 65536
U8 == 256

ImageBlocks == Sectors * Heads * Cylinders
ImageBytes == BytesPerSector * Sectors * Heads * Cylinders

DirArea == PRIMARY .. (BACKUP + BLOCKS_PER_DIRECTORY - 1)

Min(a, b) == IF a < b THEN a ELSE b
Max(a, b) == IF a < b THEN b ELSE a

\* F of the value of v: v is computed once, before F
With(v, F(_)) == CHOOSE y \in {F(e) : e \in {v}} : TRUE

---------------------------------------------------------------------------
(* Blocks of the image.                                                    *)

Uniform(v) == [i \in 0 .. (BYTES_PER_BLOCK - 1) |-> v]

BlockBytes(img, b) == IF b \in DirArea THEN img[b] ELSE Uniform(img[b])

StoreBlock(b, bytes) == IF b \in DirArea THEN bytes ELSE bytes[0]

\* AppleII::DiskImage::DiskImage: m_image(get_bytes_per_disk(format), 0)
ZeroImage == [b \in 0 .. (ImageBlocks - 1) |-> StoreBlock(b, Uniform(0))]

\* std::memcpy into the image, one block after the other.
RECURSIVE CopyIn(_, _, _, _)
CopyIn(img, blk, data, k) ==
  IF k > Len(data) THEN img
  ELSE CopyIn([img EXCEPT ![blk + k - 1] = StoreBlock(blk + k - 1, data[k])],
              blk, data, k + 1)

\* AppleII::DiskImage::write.  data is a sequence of sector_count blocks.
\* The offset is a multiple of the sector size, so the copy is by block.
DiskImage_write(img, track, head, sector, sector_count, data) ==
  LET byte_offset == ((track * Heads + head) * Sectors + sector) * BytesPerSector
      byte_count  == sector_count * BytesPerSector
      blk         == byte_offset \div BytesPerSector
  IN  IF (byte_offset + byte_count) >= ImageBytes
      THEN [ok |-> FALSE, img |-> img, touched |-> {}]
      ELSE [ok |-> TRUE,
            img |-> CopyIn(img, blk, data, 1),
            touched |-> blk .. (blk + sector_count - 1)]

\* read that lets an access end with the last byte of the image
DiskImage_read_to_the_end(img, track, head, sector, sector_count) ==
  LET byte_offset == ((track * Heads + head) * Sectors + sector) * BytesPerSector
      byte_count  == sector_count * BytesPerSector
      blk         == byte_offset \div BytesPerSector
  IN  IF (byte_offset + byte_count) > ImageBytes
      THEN [ok |-> FALSE, data |-> << >>, touched |-> {}]
      ELSE [ok |-> TRUE,
            data |-> [k \in 1 .. sector_count |-> BlockBytes(img, blk + k - 1)],
            touched |-> blk .. (blk + sector_count - 1)]

\* AppleII::DiskImage::read.  Returns the blocks copied out.
DiskImage_read(img, track, head, sector, sector_count) ==
  LET byte_offset == ((track * Heads + head) * Sectors + sector) * BytesPerSector
      byte_count  == sector_count * BytesPerSector
      blk         == byte_offset \div BytesPerSector
  IN  IF (byte_offset + byte_count) >= ImageBytes
      THEN [ok |-> FALSE, data |-> << >>, touched |-> {}]
      ELSE [ok |-> TRUE,
            data |-> [k \in 1 .. sector_count |-> BlockBytes(img, blk + k - 1)],
            touched |-> blk .. (blk + sector_count - 1)]

\* Apex::Disk::write: the track is passed as a std::uint8_t.
Disk_write(img, block_number, block_count, data) ==
  DiskImage_write(img, (block_number \div Sectors) % U8, 0,
                  block_number % Sectors, block_count, data)

\* Apex::Disk::read
Disk_read(img, block_number, block_count) ==
  DiskImage_read(img, (block_number \div Sectors) % U8, 0,
                 block_number % Sectors, block_count)

---------------------------------------------------------------------------
(* Image formats, load and save.  Here the image and the host file are     *)
(* taken sector by sector: element k of a file is its k-th run of          *)
(* bytes_per_sector bytes, and the image maps a sector's index             *)
(* track * sectors + logical_sector to the bytes it holds.                 *)

\* a host file: whether it can be opened, and its contents sector by sector
NoFile == [open |-> FALSE, sectors |-> << >>]

NoFiles == [src |-> NoFile, dst |-> NoFile]

\* the deinterleave tables; entry p + 1 is the logical sector of physical
\* sector p
dos_order_phys_to_log_table ==
  <<0, 7, 14, 6, 13, 5, 12, 4, 11, 3, 10, 2, 9, 1, 8, 15>>

prodos_order_phys_to_log_table ==
  <<0, 8, 1, 9, 2, 10, 3, 11, 4, 12, 5, 13, 6, 14, 7, 15>>

cpm_order_phys_to_log_table ==
  <<0, 11, 6, 1, 12, 7, 2, 13, 8, 3, 14, 9, 4, 15, 10, 5>>

apex_order_phys_to_log_table ==
  <<0, 14, 13, 12, 11, 10, 9, 8, 7, 6, 5, 4, 3, 2, 1, 15>>

\* DiskGeometry values; a null deinterleave_table is << >>
DiskGeometry(bps, s, h, c, table) ==
  [bytes_per_sector |-> bps, sectors |-> s, heads |-> h, cylinders |-> c,
   deinterleave_table |-> table]

geometry ==
  [RAW             |-> DiskGeometry(256, 0, 1, 0, << >>),
   THIRTEEN_SECTOR |-> DiskGeometry(256, 13, 1, 35, << >>),
   DOS_ORDER       |-> DiskGeometry(256, 16, 1, 35, dos_order_phys_to_log_table),
   PRODOS_ORDER    |-> DiskGeometry(265, 16, 1, 35, prodos_order_phys_to_log_table),
   CPM_ORDER       |-> DiskGeometry(256, 16, 1, 35, cpm_order_phys_to_log_table),
   APEX_ORDER      |-> DiskGeometry(256, 16, 1, 35, apex_order_phys_to_log_table)]

ImageFormat == DOMAIN geometry

\* DiskImage::get_bytes_per_disk
get_bytes_per_disk(format) ==
  geometry[format].bytes_per_sector * geometry[format].sectors
    * geometry[format].heads * geometry[format].cylinders

\* the sectors of m_image
SectorsPerDisk(format) ==
  get_bytes_per_disk(format) \div geometry[format].bytes_per_sector

\* DiskImage::DiskImage(format): m_image(get_bytes_per_disk(format), 0)
BlankImage(format) == [s \in 0 .. (SectorsPerDisk(format) - 1) |-> 0]

\* AppleIIDiskImage: the two sector maps of each of its image formats;
\* entry x + 1 is the image of sector x
SECTORS_PER_TRACK == 16

logical_to_physical_sector_map ==
  [RAW_ORDER    |-> <<0, 1, 2, 3, 4, 5, 6, 7, 8, 9, 10, 11, 12, 13, 14, 15>>,
   DOS_ORDER    |-> <<0, 13, 11, 9, 7, 5, 3, 1, 14, 12, 10, 8, 6, 4, 2, 15>>,
   PRODOS_ORDER |-> <<0, 2, 4, 6, 8, 10, 12, 14, 1, 3, 5, 7, 9, 11, 13, 15>>,
   CPM_ORDER    |-> <<0, 3, 6, 9, 12, 15, 2, 5, 8, 11, 14, 1, 4, 7, 10, 13>>]

\* the DOS map with the images of sectors 1 and 2 exchanged
physical_to_logical_sector_map_askew ==
  [RAW_ORDER    |-> <<0, 1, 2, 3, 4, 5, 6, 7, 8, 9, 10, 11, 12, 13, 14, 15>>,
   DOS_ORDER    |-> <<0, 14, 7, 6, 13, 5, 12, 4, 11, 3, 10, 2, 9, 1, 8, 15>>,
   PRODOS_ORDER |-> <<0, 8, 1, 9, 2, 10, 3, 11, 4, 12, 5, 13, 6, 14, 7, 15>>,
   CPM_ORDER    |-> <<0, 11, 6, 1, 12, 7, 2, 13, 8, 3, 14, 9, 4, 15, 10, 5>>]

physical_to_logical_sector_map ==
  [RAW_ORDER    |-> <<0, 1, 2, 3, 4, 5, 6, 7, 8, 9, 10, 11, 12, 13, 14, 15>>,
   DOS_ORDER    |-> <<0, 7, 14, 6, 13, 5, 12, 4, 11, 3, 10, 2, 9, 1, 8, 15>>,
   PRODOS_ORDER |-> <<0, 8, 1, 9, 2, 10, 3, 11, 4, 12, 5, 13, 6, 14, 7, 15>>,
   CPM_ORDER    |-> <<0, 11, 6, 1, 12, 7, 2, 13, 8, 3, 14, 9, 4, 15, 10, 5>>]

\* the image formats of AppleIIDiskImage
MapFormat == DOMAIN logical_to_physical_sector_map

\* AppleIIDiskImage::validate_sector_maps: its error_count
validate_sector_maps ==
  Cardinality({fl \in MapFormat \X (0 .. (SECTORS_PER_TRACK - 1)) :
                 LET psn == logical_to_physical_sector_map[fl[1]][fl[2] + 1]
                     lsn2 == physical_to_logical_sector_map[fl[1]][psn + 1]
                 IN  lsn2 # fl[2]})

\* the index in m_image of the sector that the loops of load and save meet
\* k-th: offset / bytes_per_sector
LoopOffset(format, k) ==
  LET g == geometry[format]
  IN  (k \div g.sectors) * g.sectors + g.deinterleave_table[(k % g.sectors) + 1]

\* the turns of the loop of load that read into sector s before the file
\* ran out
TurnsInto(format, s, avail) ==
  LET g == geometry[format]
      track == s \div g.sectors
  IN  {k \in (track * g.sectors) .. (track * g.sectors + g.sectors - 1) :
         k < avail /\ LoopOffset(format, k) = s}

\* DiskImage::load.  With a deinterleave table each sector is read and
\* tested; without one the whole image is read at once and nothing is tested.
DiskImage_load(img, format, f) ==
  LET n == SectorsPerDisk(format)
      avail == Min(Len(f.sectors), n)
  IN  IF ~ f.open
      THEN [ok |-> FALSE, img |-> img,
            err |-> "unable to open disk image to read"]
      ELSE IF geometry[format].deinterleave_table # << >>
      THEN [ok |-> avail = n,
            img |-> [s \in DOMAIN img |->
                       LET turns == TurnsInto(format, s, avail)
                       IN  IF turns = {} THEN img[s]
                           ELSE f.sectors[(CHOOSE k \in turns :
                                             \A j \in turns : j <= k) + 1]],
            err |-> IF avail = n THEN "" ELSE "error reading disk iamge"]
      ELSE [ok |-> TRUE,
            img |-> [s \in DOMAIN img |->
                       IF s < avail THEN f.sectors[s + 1] ELSE img[s]],
            err |-> ""]

\* save that writes the image in its own order, whatever the format
DiskImage_save_in_image_order(img, format, can_open) ==
  IF ~ can_open
  THEN [ok |-> FALSE, file |-> NoFile,
        err |-> "unable to open disk image to write"]
  ELSE [ok |-> TRUE,
        file |-> [open |-> TRUE,
                  sectors |-> [k \in 1 .. SectorsPerDisk(format) |-> img[k - 1]]],
        err |-> ""]

\* DiskImage::save to a file that can be opened or not
DiskImage_save(img, format, can_open) ==
  LET n == SectorsPerDisk(format)
  IN  IF ~ can_open
      THEN [ok |-> FALSE, file |-> NoFile,
            err |-> "unable to open disk image to write"]
      ELSE IF geometry[format].deinterleave_table # << >>
      THEN [ok |-> TRUE,
            file |-> [open |-> TRUE,
                      sectors |-> [k \in 1 .. n |->
                                     img[LoopOffset(format, k - 1)]]],
            err |-> ""]
      ELSE [ok |-> TRUE,
            file |-> [open |-> TRUE, sectors |-> [k \in 1 .. n |-> img[k - 1]]],
            err |-> ""]

---------------------------------------------------------------------------
(* Filename and Date values.                                               *)

\* a character left as it is
upcase_character_as_is(c) == c

\* utility::upcase_character, on character codes
upcase_character(c) == IF c >= 97 /\ c <= 122 THEN c - 32 ELSE c

\* the codes of the characters the program names
CHAR_SPACE == 32
CHAR_STAR == 42
CHAR_DOT == 46
CHAR_QUESTION == 63
CHAR_0 == 48
CHAR_9 == 57
CHAR_A == 65
CHAR_Z == 90
CHAR_a == 97
CHAR_z == 122

\* Filename::Filename()
Filename_default ==
  [name |-> [i \in 1 .. FILENAME_CHARS |-> CHAR_SPACE],
   ext  |-> [i \in 1 .. EXTENSION_CHARS |-> CHAR_SPACE],
   m_has_wildcard |-> FALSE]

\* the first condition of the loop of Filename::Filename(pattern), without
\* its test of index
AcceptedCharacterAnywhere(c, index) ==
  \/ c >= CHAR_A /\ c <= CHAR_Z
  \/ c >= CHAR_a /\ c <= CHAR_z
  \/ c >= CHAR_0 /\ c <= CHAR_9
  \/ c = CHAR_QUESTION
  \/ c = CHAR_STAR

\* the first condition of the loop of Filename::Filename(pattern)
AcceptedCharacter(c, index) ==
  \/ c >= CHAR_A /\ c <= CHAR_Z
  \/ c >= CHAR_a /\ c <= CHAR_z
  \/ c >= CHAR_0 /\ c <= CHAR_9 /\ index # 0
  \/ c = CHAR_QUESTION
  \/ c = CHAR_STAR

\* one turn of the loop of Filename::Filename(pattern); st holds the object,
\* current_part, index, have_star, and what was thrown if anything
ScanCharacter(st, c) ==
  IF AcceptedCharacter(c, st.index)
  THEN IF st.index >= Len(st.fn[st.current_part])
       THEN [st EXCEPT !.err = "filename component too long"]
       ELSE IF st.have_star
       THEN [st EXCEPT !.err = "filename component has characters after star"]
       ELSE [st EXCEPT !.fn[st.current_part][st.index + 1] = c,
                       !.fn.m_has_wildcard =
                          @ \/ c = CHAR_QUESTION \/ c = CHAR_STAR,
                       !.index = @ + 1,
                       !.have_star = (c = CHAR_STAR)]
  ELSE IF c = CHAR_DOT
  THEN IF st.current_part = "name"
       THEN [st EXCEPT !.current_part = "ext", !.index = 0, !.have_star = FALSE]
       ELSE [st EXCEPT !.err = "can only have one extension"]
  ELSE [st EXCEPT !.err = "charater not allowed in filespec"]

RECURSIVE ScanPattern(_, _, _)
ScanPattern(pattern, i, st) ==
  IF i > Len(pattern) \/ st.err # ""
  THEN st
  ELSE ScanPattern(pattern, i + 1, ScanCharacter(st, pattern[i]))

\* Filename::Filename(pattern): ok is FALSE when it threw FilenameError
Filename_construct(pattern) ==
  LET st == ScanPattern(pattern, 1,
                        [fn |-> Filename_default, current_part |-> "name",
                         index |-> 0, have_star |-> FALSE, err |-> ""])
  IN  [ok |-> st.err = "", fn |-> st.fn, err |-> st.err]

\* Filename::Filename(data, length): ok is FALSE when it threw FilenameError
Filename_from_raw(data) ==
  IF Len(data) # FILENAME_CHARS + EXTENSION_CHARS
  THEN [ok |-> FALSE, fn |-> Filename_default,
        err |-> "raw Apex filespec must be exactly 11 characters"]
  ELSE [ok |-> TRUE,
        fn |-> [name |-> SubSeq(data, 1, FILENAME_CHARS),
                ext |-> SubSeq(data, FILENAME_CHARS + 1,
                               FILENAME_CHARS + EXTENSION_CHARS),
                m_has_wildcard |-> FALSE],
        err |-> ""]

\* Filename::has_wildcard
has_wildcard(f) == f.m_has_wildcard

\* part_match, from position i of the loop on
RECURSIVE part_match_from(_, _, _)
part_match_from(pat, fn, i) ==
  IF i > Len(pat) THEN TRUE
  ELSE IF pat[i] = CHAR_STAR THEN TRUE
  ELSE IF pat[i] = CHAR_QUESTION THEN part_match_from(pat, fn, i + 1)
  ELSE IF pat[i] = CHAR_SPACE THEN fn[i] = CHAR_SPACE
  ELSE IF upcase_character(pat[i]) # upcase_character(fn[i]) THEN FALSE
  ELSE part_match_from(pat, fn, i + 1)

part_match(pat, fn) == part_match_from(pat, fn, 1)

\* match that looks at the name alone
Filename_match_by_name(self, other) == part_match(self.name, other.name)

\* Filename::match
Filename_match(self, other) ==
  part_match(self.name, other.name) /\ part_match(self.ext, other.ext)

\* upcase that leaves the extension as it is
Filename_upcase_of_name(f) ==
  [name |-> [i \in 1 .. FILENAME_CHARS |-> upcase_character(f.name[i])],
   ext  |-> f.ext,
   m_has_wildcard |-> FALSE]

\* Filename::upcase: a default-constructed Filename filled with the
\* upper-cased characters (m_has_wildcard stays false)
Filename_upcase(f) ==
  [name |-> [i \in 1 .. FILENAME_CHARS |-> upcase_character(f.name[i])],
   ext  |-> [i \in 1 .. EXTENSION_CHARS |-> upcase_character(f.ext[i])],
   m_has_wildcard |-> FALSE]

EPOCH_YEAR == 1976

\* the three range tests of Date::Date(year, month, day), the day allowed
\* up to 30 only
DateInRangeOfThirtyDays(year, month, day) ==
  /\ ~ (year < EPOCH_YEAR \/ year > EPOCH_YEAR + 127)
  /\ ~ (month < 1 \/ month > 12)
  /\ ~ (day < 1 \/ day > 30)

\* the three range tests of Date::Date(year, month, day)
DateInRange(year, month, day) ==
  /\ ~ (year < EPOCH_YEAR \/ year > EPOCH_YEAR + 127)
  /\ ~ (month < 1 \/ month > 12)
  /\ ~ (day < 1 \/ day > 31)

\* Date::Date(year, month, day): ok is FALSE when it threw DateError; m_raw
\* is a std::uint16_t
Date_construct(year, month, day) ==
  IF ~ DateInRange(year, month, day)
  THEN [ok |-> FALSE, m_raw |-> 0]
  ELSE [ok |-> TRUE,
        m_raw |-> ((year - EPOCH_YEAR) * (2 ^ 9) + month * (2 ^ 5) + day) % U16]

\* Date::get_year
Date_get_year(m_raw) == ((m_raw \div (2 ^ 9)) + EPOCH_YEAR) % U16

\* get_month that keeps three bits
Date_get_month_of_three_bits(m_raw) == (m_raw \div (2 ^ 5)) % 8

\* Date::get_month: (m_raw >> 5) & 0xf
Date_get_month(m_raw) == (m_raw \div (2 ^ 5)) % 16

\* Date::get_day: m_raw & 0x1f
Date_get_day(m_raw) == m_raw % 32

---------------------------------------------------------------------------
(* Directory: the 1024-byte buffer and what is derived from it.            *)

\* m_directory_data[offset], read and written
Byte(data, offset) ==
  data[(offset \div BYTES_PER_BLOCK) + 1][offset % BYTES_PER_BLOCK]

SetByte(data, offset, value) ==
  [data EXCEPT ![(offset \div BYTES_PER_BLOCK) + 1][offset % BYTES_PER_BLOCK] = value]

\* std::memcpy / std::fill of a run of bytes into the buffer, at offset
SetBytes(data, offset, bytes) ==
  [k \in DOMAIN data |->
     LET base == (k - 1) * BYTES_PER_BLOCK
     IN  IF offset + Len(bytes) <= base \/ offset >= base + BYTES_PER_BLOCK
         THEN data[k]
         ELSE [i \in DOMAIN data[k] |->
                 IF base + i >= offset /\ base + i < offset + Len(bytes)
                 THEN bytes[base + i - offset + 1]
                 ELSE data[k][i]]]

\* Directory::read_u16
read_u16(data, offset) == Byte(data, offset) + Byte(data, offset + 1) * 256

\* Directory::write_u16 (value is a std::uint16_t parameter)
write_u16(data, offset, value) ==
  SetByte(SetByte(data, offset, (value % U16) % 256),
          offset + 1, (value % U16) \div 256)

\* DirectoryEntry::get_status / get_first_block / get_last_block / get_date
get_status(data, index) == Byte(data, STATUS + index)
get_first_block(data, index) == read_u16(data, FIRST_BLOCK + index * 2)
get_last_block(data, index) == read_u16(data, LAST_BLOCK + index * 2)
get_date(data, index) == read_u16(data, FDATE + index * 2)

\* DirectoryEntry::get_block_count (a std::uint16_t)
get_block_count(data, index) ==
  (get_last_block(data, index) + 1 - get_first_block(data, index)) % U16

\* DirectoryEntry::get_filename: the raw 11 bytes, split 8/3
get_filename(data, index) ==
  LET off == FILENAME + index * (FILENAME_CHARS + EXTENSION_CHARS)
  IN  [name |-> [i \in 1 .. FILENAME_CHARS |-> Byte(data, off + i - 1)],
       ext  |-> [i \in 1 .. EXTENSION_CHARS |->
                   Byte(data, off + FILENAME_CHARS + i - 1)],
       m_has_wildcard |-> FALSE]

\* Directory::volume_size_blocks (a std::size_t)
volume_size_blocks(data) == read_u16(data, PMAXB) + 1

\* the entries of every status but INVALID, in place of the VALID ones
EntriesInUse(data) ==
  {<<i, get_first_block(data, i), get_last_block(data, i)>> :
     i \in {k \in 0 .. (ENTRIES_PER_DIRECTORY - 1) : get_status(data, k) # INVALID}}

\* the VALID entries as the loop of update_free_bitmap meets them:
\* <<index, first_block, last_block>>
ValidEntries(data) ==
  {<<i, get_first_block(data, i), get_last_block(data, i)>> :
     i \in {k \in 0 .. (ENTRIES_PER_DIRECTORY - 1) : get_status(data, k) = VALID}}

\* Directory::update_free_bitmap.  max_block is a std::uint16_t.  The two
\* loops are given by what they leave: bit b is set by the first loop when
\* b >= 17 and cleared by the second when a VALID entry's range holds b;
\* consistency_error is set when an entry finds a bit of its range clear,
\* which is a bit below 17 or one an entry of lower index has cleared; a
\* range that reaches the bitmap's size indexes the bitset outside its size.
\* Result: the bitmap, whether the inconsistency report was written to
\* stderr, and whether the bitset was indexed out of range (oob).
update_free_bitmap(data) ==
  With(ValidEntries(data), LAMBDA entries :
    LET max_block == volume_size_blocks(data) % U16
    IN  [bitmap |-> [b \in 0 .. (max_block - 1) |->
                       /\ b >= FILE_AREA_BEGIN
                       /\ \A e \in entries : ~ (e[2] <= b /\ b <= e[3])],
         report |-> \E e \in entries :
                      \E b \in e[2] .. Min(e[3], max_block - 1) :
                        \/ b < FILE_AREA_BEGIN
                        \/ \E f \in entries :
                             f[1] < e[1] /\ f[2] <= b /\ b <= f[3],
         oob |-> \E e \in entries : e[2] <= e[3] /\ e[3] >= max_block])

\* Directory::volume_free_blocks: m_free_bitmap.count()
volume_free_blocks(d) == Cardinality({b \in DOMAIN d.bitmap : d.bitmap[b]})

\* the lowest set bit at or after position from, npos when there is none
FirstSetFrom(bm, from, size) ==
  LET set == {b \in from .. (size - 1) : bm[b]}
  IN  IF set = {} THEN NPOS
      ELSE CHOOSE b \in set : \A c \in set : b <= c

\* boost::dynamic_bitset::find_first
find_first(bm) == FirstSetFrom(bm, 0, Cardinality(DOMAIN bm))

\* boost::dynamic_bitset::find_next
find_next(bm, pos) ==
  LET sz == Cardinality(DOMAIN bm)
  IN  IF pos >= sz - 1 \/ sz = 0 THEN NPOS
      ELSE FirstSetFrom(bm, pos + 1, sz)

\* the while loop with > in place of >= in its test of the run's length
RECURSIVE FreeRunScanStrict(_, _, _, _, _)
FreeRunScanStrict(free_bm, used_bm, max_block, requested, free_block_num) ==
  IF free_block_num < max_block
  THEN LET used_block_num == Min(find_next(used_bm, free_block_num), max_block)
           free_block_count == used_block_num - free_block_num
       IN  IF free_block_count > requested
           THEN free_block_num
           ELSE FreeRunScanStrict(free_bm, used_bm, max_block, requested,
                                  find_next(free_bm, used_block_num))
  ELSE 0

\* the while loop of find_free_blocks
RECURSIVE FreeRunScan(_, _, _, _, _)
FreeRunScan(free_bm, used_bm, max_block, requested, free_block_num) ==
  IF free_block_num < max_block
  THEN LET used_block_num == Min(find_next(used_bm, free_block_num), max_block)
           free_block_count == used_block_num - free_block_num
       IN  IF free_block_count >= requested
           THEN free_block_num
           ELSE FreeRunScan(free_bm, used_bm, max_block, requested,
                            find_next(free_bm, used_block_num))
  ELSE 0

\* Directory::find_free_blocks (parameter and result are std::uint16_t)
find_free_blocks(d, requested_block_count) ==
  LET max_block == volume_size_blocks(d.data)
      used_bm == [b \in DOMAIN d.bitmap |-> ~ d.bitmap[b]]
  IN  FreeRunScan(d.bitmap, used_bm, max_block, requested_block_count % U16,
                  find_first(d.bitmap)) % U16

\* the INVALID entry of the highest index, in place of the lowest
allocate_last_directory_entry(d) ==
  LET invalid == {i \in 0 .. (ENTRIES_PER_DIRECTORY - 1) :
                    get_status(d.data, i) = INVALID}
  IN  IF invalid = {} THEN [ok |-> FALSE, index |-> -1]
      ELSE [ok |-> TRUE,
            index |-> CHOOSE i \in invalid : \A k \in invalid : i >= k]

\* Directory::allocate_directory_entry: the first entry, in index order,
\* whose status is INVALID; ok = FALSE is the runtime_error "out of directory
\* entries"
allocate_directory_entry(d) ==
  LET invalid == {i \in 0 .. (ENTRIES_PER_DIRECTORY - 1) :
                    get_status(d.data, i) = INVALID}
  IN  IF invalid = {} THEN [ok |-> FALSE, index |-> -1]
      ELSE [ok |-> TRUE,
            index |-> CHOOSE i \in invalid : \A k \in invalid : i <= k]

\* a write of the buffer to both directory areas
update_disk_image_of_both_copies(img, d) ==
  Disk_write(Disk_write(img, PRIMARY, BLOCKS_PER_DIRECTORY, d.data).img,
             BACKUP, BLOCKS_PER_DIRECTORY, d.data)

\* Directory::update_disk_image
update_disk_image(img, d) ==
  Disk_write(img, d.start, BLOCKS_PER_DIRECTORY, d.data)

\* Directory::set_unsorted / Directory::set_locked: the buffer only
set_unsorted(data, unsorted) ==
  SetByte(data, DIRCHG, IF unsorted THEN 255 ELSE 0)

set_locked(data, locked) ==
  SetByte(data, FLAG_LOCK, IF locked THEN 0 ELSE 255)

---------------------------------------------------------------------------
(* Directory and DirectoryEntry operations.  Each takes the image and the  *)
(* Directory object and returns them as the operation leaves them: ok is   *)
(* FALSE when the operation threw, report says whether update_free_bitmap  *)
(* wrote its inconsistency report, oob whether it indexed the bitset       *)
(* outside its size.                                                       *)

NoDir == [start |-> 0, data |-> << >>, bitmap |-> << >>]

\* Directory::Directory: read the four blocks, then update_free_bitmap
Directory_construct(img, start_block) ==
  With(Disk_read(img, start_block, BLOCKS_PER_DIRECTORY), LAMBDA r :
    With(update_free_bitmap(r.data), LAMBDA u :
      [ok |-> r.ok,
       dir |-> [start |-> start_block, data |-> r.data, bitmap |-> u.bitmap],
       img |-> img, report |-> u.report, oob |-> u.oob]))

\* the common tail of the entry mutators and of Directory::initialize:
\* update_free_bitmap(); update_disk_image();
RebuildAndPersist(img, start_block, data) ==
  With(data, LAMBDA buffer :
    With(update_free_bitmap(buffer), LAMBDA u :
      With([start |-> start_block, data |-> buffer, bitmap |-> u.bitmap],
           LAMBDA d :
             With(update_disk_image(img, d), LAMBDA w :
               [dir |-> d, report |-> u.report, oob |-> u.oob,
                ok |-> w.ok, img |-> w.img]))))

\* delete_file without its update_free_bitmap()
delete_file_keeping_bitmap(img, d, index) ==
  With([d EXCEPT !.data = SetByte(d.data, STATUS + index, INVALID)], LAMBDA d1 :
    With(update_disk_image(img, d1), LAMBDA w :
      [dir |-> d1, report |-> FALSE, oob |-> FALSE, ok |-> w.ok, img |-> w.img]))

\* delete_file that also clears the entry's first block
delete_file_clearing_first_block(img, d, index) ==
  RebuildAndPersist(img, d.start,
    write_u16(SetByte(d.data, STATUS + index, INVALID),
              FIRST_BLOCK + index * 2, 0))

\* DirectoryEntry::delete_file
delete_file(img, d, index) ==
  RebuildAndPersist(img, d.start, SetByte(d.data, STATUS + index, INVALID))

\* the field writes of replace with the filename stored as it was given
ReplaceFieldsAsGiven(data, index, status, filename, first_block, last_block, date) ==
  LET off == FILENAME + index * (FILENAME_CHARS + EXTENSION_CHARS)
      d1 == SetByte(data, STATUS + index, status)
      d2 == SetBytes(SetBytes(d1, off, filename.name),
                     off + FILENAME_CHARS, filename.ext)
      d3 == write_u16(d2, FIRST_BLOCK + index * 2, first_block)
      d4 == write_u16(d3, LAST_BLOCK + index * 2, last_block)
      d5 == write_u16(d4, FDATE + index * 2, date)
  IN  set_unsorted(d5, TRUE)

\* the field writes of DirectoryEntry::replace, after its guard
ReplaceFields(data, index, status, filename, first_block, last_block, date) ==
  LET fn == Filename_upcase(filename)
      off == FILENAME + index * (FILENAME_CHARS + EXTENSION_CHARS)
      d1 == SetByte(data, STATUS + index, status)
      d2 == SetBytes(SetBytes(d1, off, fn.name),
                     off + FILENAME_CHARS, fn.ext)
      d3 == write_u16(d2, FIRST_BLOCK + index * 2, first_block)
      d4 == write_u16(d3, LAST_BLOCK + index * 2, last_block)
      d5 == write_u16(d4, FDATE + index * 2, date)
  IN  set_unsorted(d5, TRUE)

\* a guard that refuses VALID slots only
ReplaceAllowedUnlessValid(data, index) == Byte(data, STATUS + index) # VALID

\* the guard of DirectoryEntry::replace
ReplaceAllowed(data, index) == Byte(data, STATUS + index) = INVALID

\* DirectoryEntry::replace
replace(img, d, index, status, filename, first_block, last_block, date) ==
  IF ~ ReplaceAllowed(d.data, index)
  THEN [ok |-> FALSE, dir |-> d, img |-> img, report |-> FALSE, oob |-> FALSE]
  ELSE RebuildAndPersist(img, d.start,
         ReplaceFields(d.data, index, status, filename,
                       first_block, last_block, date))

\* Directory::set_date
set_date(img, d, new_date) ==
  With([d EXCEPT !.data = write_u16(d.data, DIRDAT, new_date)], LAMBDA d1 :
    With(update_disk_image(img, d1), LAMBDA w :
      [ok |-> w.ok, dir |-> d1, img |-> w.img, report |-> FALSE, oob |-> FALSE]))

\* Directory::set_title (an empty title is stored as a carriage return)
set_title(img, d, new_title) ==
  LET t == IF Len(new_title) = 0 THEN <<13>> ELSE new_title
      n == Min(Len(t), MAX_TITLE_CHARS)
      bytes == [i \in 1 .. n |->
                  IF i = Len(t) /\ t[i] < 128 THEN t[i] + 128 ELSE t[i]]
  IN  With([d EXCEPT !.data = SetBytes(d.data, TITLE, bytes)], LAMBDA d1 :
        With(update_disk_image(img, d1), LAMBDA w :
          [ok |-> w.ok, dir |-> d1, img |-> w.img,
           report |-> FALSE, oob |-> FALSE]))

\* the field writes of Directory::initialize
InitializeFields(data, block_count, volume_number, today) ==
  LET d1 == write_u16(data, PMAXB, block_count - 1)
      d2 == write_u16(d1, VOLUME, volume_number)
      d3 == write_u16(d2, DIRDAT, today)
      d4 == SetBytes(SetByte(d3, TITLE, 13 + 128), PRNAME,
                     [i \in 1 .. (FILENAME_CHARS + EXTENSION_CHARS) |-> 32])
  IN  set_locked(set_unsorted(d4, TRUE), FALSE)

\* Directory::initialize
Directory_initialize(img, d, block_count, volume_number, today) ==
  RebuildAndPersist(img, d.start,
    InitializeFields(d.data, block_count, volume_number, today))

\* Disk::initialize: for each DirectoryType, get_directory then initialize.
\* rnd is the value generate_random_volume_number draws; made holds the two
\* Directory objects as initialize left them.
Disk_initialize(img, block_count, volume_number, rnd, today) ==
  LET vn == IF volume_number = 0 THEN rnd ELSE volume_number
  IN
  With(Directory_construct(img, PRIMARY), LAMBDA p0 :
  With(Directory_initialize(img, p0.dir, block_count, vn % U16, today), LAMBDA p1 :
    IF ~ (p0.ok /\ p1.ok)
    THEN [ok |-> FALSE, img |-> p1.img, made |-> <<p1.dir>>,
          report |-> p0.report \/ p1.report, oob |-> p0.oob \/ p1.oob]
    ELSE
  With(Directory_construct(p1.img, BACKUP), LAMBDA b0 :
  With(Directory_initialize(p1.img, b0.dir, block_count, vn % U16, today), LAMBDA b1 :
         [ok |-> b0.ok /\ b1.ok, img |-> b1.img, made |-> <<p1.dir, b1.dir>>,
          report |-> p0.report \/ p1.report \/ b0.report \/ b1.report,
          oob |-> p0.oob \/ p1.oob \/ b0.oob \/ b1.oob]))))

\* Disk::get_directory
get_directory(img, type) == Directory_construct(img, type)

---------------------------------------------------------------------------
(* insert_file of summit.cc.                                               *)

\* the block-writing loop of insert_file, for block_index from lo to hi - 1:
\* one Disk::write per block, in ascending order, until one throws.  The
\* range is halved (the lower half is written first, the upper half only
\* when no write of the lower half threw), which is the loop's order.
RECURSIVE WriteFileBlocks(_, _, _, _, _)
WriteFileBlocks(img, start_block, lo, hi, fill) ==
  IF lo >= hi
  THEN [ok |-> TRUE, img |-> img, written |-> lo]
  ELSE IF lo + 1 = hi
  THEN With(Disk_write(img, (start_block + lo) % U16, 1, << Uniform(fill) >>),
            LAMBDA w :
              IF ~ w.ok
              THEN [ok |-> FALSE, img |-> img, written |-> lo]
              ELSE [ok |-> TRUE, img |-> w.img, written |-> hi])
  ELSE With(WriteFileBlocks(img, start_block, lo, (lo + hi) \div 2, fill),
            LAMBDA lower :
              IF ~ lower.ok
              THEN lower
              ELSE WriteFileBlocks(lower.img, start_block,
                                   (lo + hi) \div 2, hi, fill))

\* insert_file.  err names the exception that ended it, "" when it returned.
insert_file(img, d, filename, file_size_blocks, fill, mod_date) ==
  With(allocate_directory_entry(d), LAMBDA a :
    IF ~ a.ok
    THEN [ok |-> FALSE, dir |-> d, img |-> img, report |-> FALSE,
          oob |-> FALSE, slot |-> -1, start |-> -1, written |-> 0,
          err |-> "out of directory entries"]
    ELSE
  With(find_free_blocks(d, file_size_blocks), LAMBDA start_block :
  With(WriteFileBlocks(img, start_block, 0, file_size_blocks, fill), LAMBDA w :
    IF ~ w.ok
    THEN [ok |-> FALSE, dir |-> d, img |-> w.img, report |-> FALSE,
          oob |-> FALSE, slot |-> a.index, start |-> start_block,
          written |-> w.written, err |-> "write beyond end of disk image"]
    ELSE
  With(replace(w.img, d, a.index, VALID, filename, start_block,
               (start_block + file_size_blocks - 1) % U16, mod_date),
       LAMBDA r :
         [ok |-> r.ok, dir |-> r.dir, img |-> r.img, report |-> r.report,
          oob |-> r.oob, slot |-> a.index, start |-> start_block,
          written |-> w.written,
          err |-> IF r.ok THEN ""
                  ELSE "can't overwrite a directory entry that is in use"]))))

---------------------------------------------------------------------------
(* Bounds and inputs.                                                      *)

MaxOps == 3          \* operations per run
VolumeBlocks == 40   \* block_count given to Disk::initialize
FillByte == 170      \* the data byte of the inserted files
SomeDate == 25121    \* a packed Date

Handles == {"A", "B"}

\* Filename values as the pattern constructor leaves them: space padded
Pad(chars, n) == [i \in 1 .. n |-> IF i <= Len(chars) THEN chars[i] ELSE 32]

MkFilename(n, e) ==
  [name |-> Pad(n, FILENAME_CHARS), ext |-> Pad(e, EXTENSION_CHARS),
   m_has_wildcard |-> FALSE]

FnLower == MkFilename(<<97, 98>>, <<116>>)       \* "ab.t"
FnUpper == MkFilename(<<67>>, << >>)             \* "C"
Names == {FnLower, FnUpper}

FileSizes == {0, 6, 20}      \* host file sizes, in blocks
DelSlots == {0, 1}

---------------------------------------------------------------------------
(* State.                                                                  *)

\* no Date made
NoDate == [given |-> <<0, 0, 0>>, built |-> "no", m_raw |-> 0]

\* no filespec given, no Filename made
NoNames == [pattern |-> << >>, built |-> "no", fn |-> Filename_default]

NoPre == [free |-> -1, bitmap |-> << >>, status |-> -1, invalid |-> {}]

\* what the operation found: the free count, the bitmap, the slot's status
\* and the slots whose status is INVALID
PreOf(d, slot) ==
  [free |-> volume_free_blocks(d), bitmap |-> d.bitmap,
   status |-> IF slot \in 0 .. (ENTRIES_PER_DIRECTORY - 1)
              THEN get_status(d.data, slot) ELSE -1,
   invalid |-> {i \in 0 .. (ENTRIES_PER_DIRECTORY - 1) :
                  get_status(d.data, i) = INVALID}]

OpRec(op, h, res, slot, status, fst, lst, n, ret, report, touched, pre) ==
  [op |-> op, h |-> h, res |-> res, slot |-> slot, status |-> status,
   fst |-> fst, lst |-> lst, n |-> n, ret |-> ret, report |-> report,
   touched |-> touched, pre |-> pre, made |-> << >>, prev |-> << >>]

NoOp == OpRec("none", "", "ok", -1, -1, -1, -1, -1, -1, FALSE, {}, NoPre)

Res(ok) == IF ok THEN "ok" ELSE "error"

\* one buffer shared by the Directory objects of the same directory area
StoreHandleShared(h, d) ==
  [g \in Handles |->
     IF g = h \/ (dirs[g].start # 0 /\ dirs[g].start = d.start)
     THEN d ELSE dirs[g]]

\* each Directory object holds its own m_directory_data and m_free_bitmap:
\* what an operation leaves in the Directory it was called on
StoreHandle(h, d) == [dirs EXCEPT ![h] = d]

\* The end of an operation on handle h with result r; lastOp keeps the
\* operation and the one before it.  When the bitmap rebuild indexed the
\* bitset outside its size the behaviour is undefined: either the library's
\* range assertion ends the process ("abort"), or the operation runs on with
\* whatever the out-of-range read returned ("ub"); nothing is modelled after
\* either.
Apply(h, r, rec) ==
  LET rec1 == [rec EXCEPT !.prev = [lastOp EXCEPT !.prev = << >>]]
  IN  /\ nops' = nops + 1
      /\ UNCHANGED <<m_format, files, names, dates>>
      /\ IF r.oob
         THEN \E o \in {<<"abort", FALSE>>, <<"ub", FALSE>>, <<"ub", TRUE>>} :
                /\ fault' = o[1]
                /\ lastOp' = [rec1 EXCEPT
                                !.res = IF o[1] = "abort" THEN "abort" ELSE @,
                                !.report = o[2]]
                /\ IF o[1] = "abort"
                   THEN UNCHANGED <<image, dirs>>
                   ELSE /\ image' = r.img
                        /\ dirs' = StoreHandle(h, r.dir)
         ELSE /\ fault' = fault
              /\ lastOp' = rec1
              /\ image' = r.img
              /\ dirs' = StoreHandle(h, r.dir)

Running == fault = "none" /\ nops < MaxOps

Ready(h) == Running /\ dirs[h].start # 0

\* the fresh volume: Disk(), Disk::initialize()
FreshImage(block_count) ==
  Disk_initialize(ZeroImage, block_count, 1, 1, SomeDate).img

\* the image, and handle A from get_directory(PRIMARY)
InitVolume(img) ==
  /\ image = img
  /\ \E g \in {get_directory(img, PRIMARY)} :
       dirs = [h \in Handles |-> IF h = "A" THEN g.dir ELSE NoDir]
  /\ lastOp = NoOp
  /\ nops = 0
  /\ fault = "none"
  /\ m_format = "APEX_ORDER"
  /\ files = NoFiles /\ names = NoNames /\ dates = NoDate

---------------------------------------------------------------------------
(* Actions.                                                                *)

InsertFile(h, fn, size, fill, date) ==
  /\ Ready(h)
  /\ \E r \in {insert_file(image, dirs[h], fn, size, fill, date)} :
       Apply(h, r,
               OpRec("insert_file", h, Res(r.ok), r.slot, VALID, r.start,
                     (r.start + size - 1) % U16, size, r.start, r.report,
                     {(r.start + i) % U16 : i \in 0 .. (r.written - 1)},
                     PreOf(dirs[h], r.slot)))

DeleteFile(h, slot) ==
  /\ Ready(h)
  /\ \E r \in {delete_file(image, dirs[h], slot)} :
       Apply(h, r,
               OpRec("delete_file", h, Res(r.ok), slot, INVALID, -1, -1, -1, -1,
                     r.report, {}, PreOf(dirs[h], slot)))

---------------------------------------------------------------------------
(* Spec: insert_file and delete_file on a freshly initialized volume.      *)

Init == \E img \in {FreshImage(VolumeBlocks)} : InitVolume(img)

Next ==
  \/ \E fn \in Names, size \in FileSizes :
       InsertFile("A", fn, size, FillByte, SomeDate)
  \/ \E slot \in DelSlots : DeleteFile("A", slot)

Spec == Init /\ [][Next]_vars

---------------------------------------------------------------------------
(* SpecRW: Disk::read and Disk::write by block number.                     *)

RWBlocks == {0, 558, 559, 560, 4096, 65535}   \* std::uint16_t block numbers
RWCounts == {1, 2}

DiskRead(block_number, block_count) ==
  /\ Running
  /\ \E r \in {Disk_read(image, block_number, block_count)} :
      Apply("A", [ok |-> r.ok, dir |-> dirs["A"], img |-> image,
                     report |-> FALSE, oob |-> FALSE],
               OpRec("Disk::read", "", Res(r.ok), -1, -1, block_number,
                     block_number + block_count - 1, block_count, -1, FALSE,
                     r.touched, NoPre))

DiskWrite(block_number, block_count, fill) ==
  /\ Running
  /\ \E r \in {Disk_write(image, block_number, block_count,
                         [k \in 1 .. block_count |-> Uniform(fill)])} :
      Apply("A", [ok |-> r.ok, dir |-> dirs["A"], img |-> r.img,
                     report |-> FALSE, oob |-> FALSE],
               OpRec("Disk::write", "", Res(r.ok), -1, -1, block_number,
                     block_number + block_count - 1, block_count, -1, FALSE,
                     r.touched, NoPre))

NextRW ==
  \/ \E b \in RWBlocks, c \in RWCounts : DiskRead(b, c)
  \/ \E b \in RWBlocks, c \in RWCounts : DiskWrite(b, c, FillByte)

SpecRW == Init /\ [][NextRW]_vars

---------------------------------------------------------------------------
(* SpecFind: find_free_blocks on volumes with files in the file area.      *)

\* block ranges of files; with the ranges 2, 4 and 6 in use the free runs
\* are 17..19, 21..30 and 32..36, of lengths 3, 10 and 5
FindRanges ==
  << <<17, 19>>, <<20, 20>>, <<21, 30>>, <<31, 31>>, <<32, 36>>,
     <<37, VolumeBlocks - 1>> >>

\* which of the ranges hold a file
FindLayouts ==
  { {}, {2, 4, 6}, {1, 2, 3, 4, 5, 6}, {1}, {6}, {2, 4}, {1, 3, 5},
    {1, 2, 3, 4, 5}, {3} }

FindCounts == {1, 3, 4, 5, 10, 11}

\* the volume after a file was given each range of layout, lowest first:
\* allocate_directory_entry, then replace with status VALID
RECURSIVE PlaceRanges(_, _, _, _)
PlaceRanges(img, d, layout, k) ==
  IF k > Len(FindRanges) THEN [img |-> img, dir |-> d]
  ELSE IF k \notin layout THEN PlaceRanges(img, d, layout, k + 1)
  ELSE With(replace(img, d, allocate_directory_entry(d).index, VALID,
                    FnUpper, FindRanges[k][1], FindRanges[k][2], SomeDate),
            LAMBDA r : PlaceRanges(r.img, r.dir, layout, k + 1))

PlacedImage(img, layout) ==
  With(get_directory(img, PRIMARY), LAMBDA g :
    PlaceRanges(img, g.dir, layout, 1).img)

InitFind ==
  \E layout \in FindLayouts, img \in {FreshImage(VolumeBlocks)} :
    \E placed \in {PlacedImage(img, layout)} : InitVolume(placed)

FindFreeBlocks(h, n) ==
  /\ Ready(h)
  /\ \E ret \in {find_free_blocks(dirs[h], n)} :
         Apply(h, [ok |-> TRUE, dir |-> dirs[h], img |-> image,
                   report |-> FALSE, oob |-> FALSE],
               OpRec("find_free_blocks", h, "ok", -1, -1, -1, -1, n, ret,
                     FALSE, {}, PreOf(dirs[h], -1)))

NextFind == \E n \in FindCounts : FindFreeBlocks("A", n)

SpecFind == InitFind /\ [][NextFind]_vars

---------------------------------------------------------------------------
(* SpecDir: the entry mutators, get_directory and Disk::initialize on a    *)
(* freshly initialized volume.                                             *)

\* DirectoryEntry::replace arguments: <<slot, status, first_block, last_block>>
ReplaceInputs ==
  { <<0, VALID, 20, 25>>, <<1, VALID, 24, 30>>, <<2, TENTATIVE, 31, 33>>,
    <<2, REPLACE, 26, 28>>, <<2, DISK_ERASED, 18, 19>> }

DirTypes == {PRIMARY, BACKUP}

Replace(h, slot, status, fn, first_block, last_block, date) ==
  /\ Ready(h)
  /\ \E r \in {replace(image, dirs[h], slot, status, fn, first_block,
                      last_block, date)} :
       Apply(h, r,
               OpRec("replace", h, Res(r.ok), slot, status, first_block,
                     last_block, last_block - first_block + 1, -1, r.report,
                     {}, PreOf(dirs[h], slot)))

\* h = disk.get_directory(type): the handle's former Directory is gone
GetDirectory(h, type) ==
  /\ Running
  /\ \E r \in {get_directory(image, type)} :
       Apply(h, r,
               OpRec("get_directory", h, Res(r.ok), -1, -1, type, -1, -1, -1,
                     r.report, {}, NoPre))

\* Disk::initialize; the handles that exist keep their buffers
DiskInitialize(block_count, volume_number) ==
  /\ Running
  /\ \E r \in {Disk_initialize(image, block_count, volume_number, 1, SomeDate)} :
      Apply("A", [ok |-> r.ok, dir |-> dirs["A"], img |-> r.img,
                     report |-> r.report, oob |-> r.oob],
               [OpRec("Disk::initialize", "", Res(r.ok), -1, -1, -1, -1,
                      block_count, -1, r.report, {}, NoPre)
                  EXCEPT !.made = r.made])

NextDir ==
  \/ \E a \in ReplaceInputs :
       Replace("A", a[1], a[2], FnLower, a[3], a[4], SomeDate)
  \/ \E slot \in DelSlots : DeleteFile("A", slot)
  \/ InsertFile("A", FnUpper, 6, FillByte, SomeDate)
  \/ \E type \in DirTypes : GetDirectory("B", type)
  \/ DiskInitialize(VolumeBlocks, 1)

SpecDir == Init /\ [][NextDir]_vars

---------------------------------------------------------------------------
(* SpecSlots: allocate_directory_entry, delete_file and insert_file on a   *)
(* volume whose directory is full, or nearly so, of empty files.           *)

\* how many empty files the volume holds at the start
FileCounts == {ENTRIES_PER_DIRECTORY - 2, ENTRIES_PER_DIRECTORY - 1,
               ENTRIES_PER_DIRECTORY}

SlotInputs == {0, 5, ENTRIES_PER_DIRECTORY - 1}

\* insert_file of an empty host file, hi - lo times over; the range is
\* halved, the lower half first
RECURSIVE InsertEmptyFiles(_, _, _, _)
InsertEmptyFiles(img, d, lo, hi) ==
  IF lo >= hi
  THEN [img |-> img, dir |-> d]
  ELSE IF lo + 1 = hi
  THEN With(insert_file(img, d, FnUpper, 0, FillByte, SomeDate),
            LAMBDA r : [img |-> r.img, dir |-> r.dir])
  ELSE With(InsertEmptyFiles(img, d, lo, (lo + hi) \div 2),
            LAMBDA x : InsertEmptyFiles(x.img, x.dir, (lo + hi) \div 2, hi))

FilledImage(img, count) ==
  With(get_directory(img, PRIMARY), LAMBDA g :
    InsertEmptyFiles(img, g.dir, 0, count).img)

InitSlots ==
  \E count \in FileCounts, img \in {FreshImage(VolumeBlocks)} :
    \E filled \in {FilledImage(img, count)} : InitVolume(filled)

\* Directory::allocate_directory_entry: the entry is returned, nothing is
\* written
AllocateEntry(h) ==
  /\ Ready(h)
  /\ \E a \in {allocate_directory_entry(dirs[h])} :
       Apply(h, [ok |-> a.ok, dir |-> dirs[h], img |-> image,
                 report |-> FALSE, oob |-> FALSE],
             OpRec("allocate_directory_entry", h, Res(a.ok), a.index, -1,
                   -1, -1, -1, a.index, FALSE, {}, PreOf(dirs[h], a.index)))

NextSlots ==
  \/ AllocateEntry("A")
  \/ \E slot \in SlotInputs : DeleteFile("A", slot)
  \/ \E size \in {0, 1} : InsertFile("A", FnLower, size, FillByte, SomeDate)

SpecSlots == InitSlots /\ [][NextSlots]_vars

---------------------------------------------------------------------------
(* SpecMeta: the Directory setters beside replace and delete_file.         *)

\* "" and "Hi"
Titles == { << >>, <<72, 105>> }

SetDate(h, new_date) ==
  /\ Ready(h)
  /\ \E r \in {set_date(image, dirs[h], new_date)} :
       Apply(h, r,
             OpRec("set_date", h, Res(r.ok), -1, -1, -1, -1, -1, -1, FALSE,
                   {}, NoPre))

SetTitle(h, new_title) ==
  /\ Ready(h)
  /\ \E r \in {set_title(image, dirs[h], new_title)} :
       Apply(h, r,
             OpRec("set_title", h, Res(r.ok), -1, -1, -1, -1, -1, -1, FALSE,
                   {}, NoPre))

SetUnsorted(h, unsorted) ==
  /\ Ready(h)
  /\ Apply(h, [ok |-> TRUE,
               dir |-> [dirs[h] EXCEPT !.data = set_unsorted(@, unsorted)],
               img |-> image, report |-> FALSE, oob |-> FALSE],
           OpRec("set_unsorted", h, "ok", -1, -1, -1, -1, -1, -1, FALSE,
                 {}, NoPre))

SetLocked(h, locked) ==
  /\ Ready(h)
  /\ Apply(h, [ok |-> TRUE,
               dir |-> [dirs[h] EXCEPT !.data = set_locked(@, locked)],
               img |-> image, report |-> FALSE, oob |-> FALSE],
           OpRec("set_locked", h, "ok", -1, -1, -1, -1, -1, -1, FALSE,
                 {}, NoPre))

NextMeta ==
  \/ SetDate("A", (SomeDate + 1) % U16)
  \/ \E t \in Titles : SetTitle("A", t)
  \/ \E b \in BOOLEAN : SetUnsorted("A", b)
  \/ \E b \in BOOLEAN : SetLocked("A", b)
  \/ Replace("A", 0, VALID, FnLower, 20, 25, SomeDate)
  \/ DeleteFile("A", 0)

SpecMeta == Init /\ [][NextMeta]_vars

---------------------------------------------------------------------------
(* SpecDamaged: entries whose ranges overlap, start below the file area or *)
(* end past the volume, made by replace or found in a loaded image.        *)

\* DirectoryEntry::replace arguments: <<slot, status, first_block, last_block>>
DamagedInputs ==
  { <<0, VALID, 20, 25>>, <<1, VALID, 24, 30>>, <<2, VALID, 10, 18>>,
    <<3, VALID, VolumeBlocks - 2, VolumeBlocks + 5>>, <<4, VALID, 31, 33>>,
    <<5, TENTATIVE, 20, 25>> }

\* the entries a loaded image may hold in its primary directory: none, one
\* that ends past the volume, one that starts in the backup directory
LoadedEntries ==
  { << >>, << <<3, VALID, VolumeBlocks - 2, VolumeBlocks + 5>> >>,
    << <<2, VALID, 10, 18>> >> }

\* DiskImage::load of a file whose primary directory blocks hold the entries
\* (the bytes of the file become the bytes of the image)
ImageWithEntries(img, entries) ==
  IF entries = << >> THEN img
  ELSE With(get_directory(img, PRIMARY).dir.data, LAMBDA data :
         Disk_write(img, PRIMARY, BLOCKS_PER_DIRECTORY,
                    ReplaceFields(data, entries[1][1], entries[1][2], FnUpper,
                                  entries[1][3], entries[1][4], SomeDate)).img)

\* a loaded image, and no Directory object yet
InitDamaged ==
  \E entries \in LoadedEntries, img \in {FreshImage(VolumeBlocks)} :
    \E loaded \in {ImageWithEntries(img, entries)} :
      /\ image = loaded
      /\ dirs = [h \in Handles |-> NoDir]
      /\ lastOp = NoOp
      /\ nops = 0
      /\ fault = "none"
      /\ m_format = "APEX_ORDER"
      /\ files = NoFiles /\ names = NoNames /\ dates = NoDate

NextDamaged ==
  \/ \E a \in DamagedInputs :
       Replace("A", a[1], a[2], FnUpper, a[3], a[4], SomeDate)
  \/ \E slot \in DelSlots : DeleteFile("A", slot)
  \/ \E h \in Handles : GetDirectory(h, PRIMARY)

SpecDamaged == InitDamaged /\ [][NextDamaged]_vars

---------------------------------------------------------------------------
(* SpecLoad: DiskImage::load and DiskImage::save of an image of each       *)
(* format, from host files of the full length, shorter, longer, or that    *)
(* cannot be opened.                                                       *)

PayloadModulus == 251

\* the contents of sector k of a source file
Payload(mult, add, k) == (k * mult + add) % PayloadModulus

PayloadMults == {0, 1, 7}
PayloadAdds == {0, 1}

\* the lengths, in sectors, of the source files for a format
SourceLengths(format) ==
  {n \in {0, SectorsPerDisk(format) - 1, SectorsPerDisk(format),
          SectorsPerDisk(format) + 1} : n >= 0}

SourceFiles(format) ==
  {NoFile} \cup
  {[open |-> TRUE, sectors |-> [k \in 1 .. n |-> Payload(mult, add, k - 1)]] :
     n \in SourceLengths(format), mult \in PayloadMults, add \in PayloadAdds}

InitLoad ==
  \E format \in ImageFormat :
    \E f \in SourceFiles(format) :
      /\ image = BlankImage(format)
      /\ dirs = [h \in Handles |-> NoDir]
      /\ lastOp = NoOp
      /\ nops = 0
      /\ fault = "none"
      /\ m_format = format
      /\ files = [src |-> f, dst |-> NoFile]
      /\ names = NoNames /\ dates = NoDate

FileOp(op, ok, err) ==
  [OpRec(op, "", Res(ok), -1, -1, -1, -1, -1, -1, FALSE, {}, NoPre)
     EXCEPT !.prev = [lastOp EXCEPT !.prev = << >>], !.made = err]

\* disk.load(filename)
Load ==
  /\ Running
  /\ \E r \in {DiskImage_load(image, m_format, files.src)} :
       /\ image' = r.img
       /\ lastOp' = FileOp("load", r.ok, r.err)
  /\ nops' = nops + 1
  /\ UNCHANGED <<dirs, fault, m_format, files, names, dates>>

\* disk.save(filename)
Save(can_open) ==
  /\ Running
  /\ \E r \in {DiskImage_save(image, m_format, can_open)} :
       /\ files' = IF r.ok THEN [files EXCEPT !.dst = r.file] ELSE files
       /\ lastOp' = FileOp("save", r.ok, r.err)
  /\ nops' = nops + 1
  /\ UNCHANGED <<image, dirs, fault, m_format, names, dates>>

NextLoad ==
  \/ Load
  \/ \E can_open \in BOOLEAN : Save(can_open)

SpecLoad == InitLoad /\ [][NextLoad]_vars

---------------------------------------------------------------------------
(* SpecMaps: the sector maps of every image format applied to a sector     *)
(* number, one after the other.  lastOp.ret is the sector number the last  *)
(* map gave, lastOp.fst the one it was given.                              *)

\* a format of either class, with the tables it has: l2p and p2l of
\* AppleIIDiskImage, the deinterleave table of DiskImage
MappedFormats ==
  {<<"AppleIIDiskImage", f>> : f \in MapFormat}
    \cup {<<"DiskImage", f>> :
            f \in {g \in ImageFormat : geometry[g].deinterleave_table # << >>}}

InitMaps ==
  \E cf \in MappedFormats, x \in 0 .. (SECTORS_PER_TRACK - 1) :
    /\ image = ZeroImage
    /\ dirs = [h \in Handles |-> NoDir]
    /\ lastOp = [NoOp EXCEPT !.h = cf[1], !.ret = x]
    /\ nops = 0
    /\ fault = "none"
    /\ m_format = cf[2]
    /\ files = NoFiles /\ names = NoNames /\ dates = NoDate

MapOp(op, x, y) ==
  [OpRec(op, lastOp.h, "ok", -1, -1, x, -1, -1, y, FALSE, {}, NoPre)
     EXCEPT !.prev = [lastOp EXCEPT !.prev = << >>]]

\* logical_to_physical_sector_map[format][lsn]
LogicalToPhysical ==
  /\ Running
  /\ lastOp.h = "AppleIIDiskImage"
  /\ lastOp' = MapOp("logical_to_physical", lastOp.ret,
                     logical_to_physical_sector_map[m_format][lastOp.ret + 1])
  /\ nops' = nops + 1
  /\ UNCHANGED <<image, dirs, fault, m_format, files, names, dates>>

\* physical_to_logical_sector_map[format][psn]
PhysicalToLogical ==
  /\ Running
  /\ lastOp.h = "AppleIIDiskImage"
  /\ lastOp' = MapOp("physical_to_logical", lastOp.ret,
                     physical_to_logical_sector_map[m_format][lastOp.ret + 1])
  /\ nops' = nops + 1
  /\ UNCHANGED <<image, dirs, fault, m_format, files, names, dates>>

\* geometry[m_format].deinterleave_table[physical_sector]
Deinterleave ==
  /\ Running
  /\ lastOp.h = "DiskImage"
  /\ lastOp' = MapOp("deinterleave", lastOp.ret,
                     geometry[m_format].deinterleave_table[lastOp.ret + 1])
  /\ nops' = nops + 1
  /\ UNCHANGED <<image, dirs, fault, m_format, files, names, dates>>

\* AppleIIDiskImage::validate_sector_maps(); the sector number in hand stays
ValidateSectorMaps ==
  /\ Running
  /\ lastOp.h = "AppleIIDiskImage"
  /\ \E error_count \in {validate_sector_maps} :
       lastOp' = [MapOp("validate_sector_maps", lastOp.ret, lastOp.ret)
                    EXCEPT !.n = error_count,
                           !.res = Res(error_count = 0)]
  /\ nops' = nops + 1
  /\ UNCHANGED <<image, dirs, fault, m_format, files, names, dates>>

NextMaps ==
  \/ LogicalToPhysical
  \/ PhysicalToLogical
  \/ Deinterleave
  \/ ValidateSectorMaps

SpecMaps == InitMaps /\ [][NextMaps]_vars

---------------------------------------------------------------------------
(* SpecImage: DiskImage::read and DiskImage::write by track, head and      *)
(* sector, at both ends of the image and past it.                          *)

MaxImageOps == 2

\* <<track, head, sector>>: sectors 0, 557, 558, 559, 560 and 4335 of the
\* image
Accesses ==
  {<<0, 0, 0>>, <<34, 0, 13>>, <<34, 0, 14>>, <<33, 1, 15>>, <<35, 0, 0>>,
   <<255, 0, 255>>}

SectorCounts == {0, 1, 2}

\* the sector of the image that an access starts at
FirstSector(a) == (a[1] * Heads + a[2]) * Sectors + a[3]

ImageOp(op, a, sector_count, r, data) ==
  [OpRec(op, "", Res(r.ok), -1, -1, FirstSector(a),
         FirstSector(a) + sector_count - 1, sector_count, -1, FALSE,
         r.touched, NoPre)
     EXCEPT !.prev = [lastOp EXCEPT !.prev = << >>], !.made = data]

\* image.read(track, head, sector, sector_count, data)
ImageRead(a, sector_count) ==
  /\ fault = "none" /\ nops < MaxImageOps
  /\ \E r \in {DiskImage_read(image, a[1], a[2], a[3], sector_count)} :
       lastOp' = ImageOp("DiskImage::read", a, sector_count, r, r.data)
  /\ nops' = nops + 1
  /\ UNCHANGED <<image, dirs, fault, m_format, files, names, dates>>

\* image.write(track, head, sector, sector_count, data)
ImageWrite(a, sector_count, fill) ==
  /\ fault = "none" /\ nops < MaxImageOps
  /\ \E data \in {[k \in 1 .. sector_count |-> Uniform(fill)]} :
       \E r \in {DiskImage_write(image, a[1], a[2], a[3], sector_count, data)} :
         /\ image' = r.img
         /\ lastOp' = ImageOp("DiskImage::write", a, sector_count, r, data)
  /\ nops' = nops + 1
  /\ UNCHANGED <<dirs, fault, m_format, files, names, dates>>

NextImage ==
  \/ \E a \in Accesses, c \in SectorCounts : ImageRead(a, c)
  \/ \E a \in Accesses, c \in SectorCounts : ImageWrite(a, c, FillByte)

SpecImage == Init /\ [][NextImage]_vars

---------------------------------------------------------------------------
(* SpecName: Filename(pattern) of filespecs as the command line gives      *)
(* them, and match of the Filename made against the filenames of           *)
(* directory entries.                                                      *)

MaxNameOps == 2
MaxTail == 2

\* the code of each character the filespecs are written with
Ascii ==
  ("A" :> 65) @@ ("B" :> 66) @@ ("C" :> 67) @@ ("D" :> 68) @@ ("E" :> 69)
    @@ ("F" :> 70) @@ ("G" :> 71) @@ ("H" :> 72) @@ ("P" :> 80) @@ ("T" :> 84)
    @@ ("X" :> 88) @@ ("a" :> 97) @@ ("b" :> 98) @@ ("e" :> 101)
    @@ ("p" :> 112) @@ ("t" :> 116) @@ ("x" :> 120) @@ ("1" :> 49)
    @@ ("?" :> 63) @@ ("*" :> 42) @@ ("." :> 46) @@ ("-" :> 45)

\* the std::string of the characters cs
Str(cs) == [i \in 1 .. Len(cs) |-> Ascii[cs[i]]]

\* every string of at most n characters of alphabet
RECURSIVE StringsUpTo(_, _)
StringsUpTo(alphabet, n) ==
  IF n = 0 THEN {<< >>}
  ELSE LET shorter == StringsUpTo(alphabet, n - 1)
       IN  shorter \cup {Append(t, c) : t \in shorter, c \in alphabet}

TailAlphabet == {Ascii[c] : c \in {"A", "b", "1", "?", "*", ".", "-"}}

\* what the tails are appended to: nothing, seven letters of a name, two
\* letters of an extension
Stems ==
  {<< >>, Str(<<"A", "B", "C", "D", "E", "F", "G">>), Str(<<"A", ".", "T", "X">>)}

Patterns ==
  {h \o t : h \in Stems, t \in StringsUpTo(TailAlphabet, MaxTail)}
    \cup {Str(<<"*", ".", "*">>), Str(<<"A", "?", ".", "T", "X", "T">>),
          Str(<<"A", "*", "B">>), Str(<<"a", "p", "*", ".", "t", "*">>),
          Str(<<"A", "?", "*">>)}

\* filenames of directory entries: AB.TXT, A1.TXT, ABC.TXT, A.TXT, APEX, A,
\* apex.txt, B
Targets ==
  {MkFilename(Str(<<"A", "B">>), Str(<<"T", "X", "T">>)),
   MkFilename(Str(<<"A", "1">>), Str(<<"T", "X", "T">>)),
   MkFilename(Str(<<"A", "B", "C">>), Str(<<"T", "X", "T">>)),
   MkFilename(Str(<<"A">>), Str(<<"T", "X", "T">>)),
   MkFilename(Str(<<"A", "P", "E", "X">>), << >>),
   MkFilename(Str(<<"A">>), << >>),
   MkFilename(Str(<<"a", "p", "e", "x">>), Str(<<"t", "x", "t">>)),
   MkFilename(Str(<<"B">>), << >>)}

InitName ==
  \E pattern \in Patterns :
    /\ image = ZeroImage
    /\ dirs = [h \in Handles |-> NoDir]
    /\ lastOp = NoOp
    /\ nops = 0
    /\ fault = "none"
    /\ m_format = "APEX_ORDER"
    /\ files = NoFiles
    /\ names = [NoNames EXCEPT !.pattern = pattern] /\ dates = NoDate

NameOp(op, ok, result, what) ==
  [OpRec(op, "", Res(ok), -1, -1, -1, -1, -1, result, FALSE, {}, NoPre)
     EXCEPT !.prev = [lastOp EXCEPT !.prev = << >>], !.made = what]

\* Apex::Filename pattern(filespec)
Construct ==
  /\ fault = "none" /\ nops < MaxNameOps
  /\ names.built = "no"
  /\ \E r \in {Filename_construct(names.pattern)} :
       /\ names' = [names EXCEPT !.built = Res(r.ok),
                                 !.fn = IF r.ok THEN r.fn ELSE @]
       /\ lastOp' = NameOp("Filename", r.ok, -1, [what |-> r.err])
  /\ nops' = nops + 1
  /\ UNCHANGED <<image, dirs, fault, m_format, files, dates>>

\* pattern.match(other): lastOp.ret is 1 when it returned true
Match(other) ==
  /\ fault = "none" /\ nops < MaxNameOps
  /\ names.built = "ok"
  /\ \E r \in {Filename_match(names.fn, other)} :
       lastOp' = NameOp("match", TRUE, IF r THEN 1 ELSE 0, other)
  /\ nops' = nops + 1
  /\ UNCHANGED <<image, dirs, fault, m_format, files, names, dates>>

NextName ==
  \/ Construct
  \/ \E other \in Targets : Match(other)

SpecName == InitName /\ [][NextName]_vars

---------------------------------------------------------------------------
(* SpecUpcase: upcase and has_wildcard of Filenames made by either         *)
(* constructor, from filespecs and from the 11 bytes of a directory entry. *)

MaxUpcaseOps == 3

\* the 11 bytes of a directory entry's filename as the buffer holds them
RawOf(f) == f.name \o f.ext

\* raw bytes: those of the filenames above, some with a ? or a * among
\* them, and some of the wrong length
RawNames ==
  {RawOf(t) : t \in Targets}
    \cup {RawOf(MkFilename(Str(<<"a", "?">>), Str(<<"T">>))),
          RawOf(MkFilename(Str(<<"*">>), << >>)),
          RawOf(MkFilename(Str(<<"A", "b", "1">>), Str(<<"*">>))),
          Str(<<"A", "B", "C", "D", "E", "F", "G", "H", "T", "X">>),
          Str(<<"A", "B", "C", "D", "E", "F", "G", "H", "T", "X", "T", "X">>)}

InitUpcase ==
  \E given \in Patterns \cup RawNames :
    /\ image = ZeroImage
    /\ dirs = [h \in Handles |-> NoDir]
    /\ lastOp = NoOp
    /\ nops = 0
    /\ fault = "none"
    /\ m_format = "APEX_ORDER"
    /\ files = NoFiles
    /\ names = [NoNames EXCEPT !.pattern = given] /\ dates = NoDate

\* Apex::Filename fn(data, length)
ConstructRaw ==
  /\ fault = "none" /\ nops < MaxUpcaseOps
  /\ names.built = "no"
  /\ \E r \in {Filename_from_raw(names.pattern)} :
       /\ names' = [names EXCEPT !.built = Res(r.ok),
                                 !.fn = IF r.ok THEN r.fn ELSE @]
       /\ lastOp' = NameOp("Filename(raw)", r.ok, -1, [what |-> r.err])
  /\ nops' = nops + 1
  /\ UNCHANGED <<image, dirs, fault, m_format, files, dates>>

\* fn = fn.upcase()
Upcase ==
  /\ fault = "none" /\ nops < MaxUpcaseOps
  /\ names.built = "ok"
  /\ \E r \in {Filename_upcase(names.fn)} :
       /\ names' = [names EXCEPT !.fn = r]
       /\ lastOp' = NameOp("upcase", TRUE, -1, r)
  /\ nops' = nops + 1
  /\ UNCHANGED <<image, dirs, fault, m_format, files, dates>>

\* fn.has_wildcard(): lastOp.ret is 1 when it returned true
HasWildcard ==
  /\ fault = "none" /\ nops < MaxUpcaseOps
  /\ names.built = "ok"
  /\ lastOp' = NameOp("has_wildcard", TRUE,
                      IF has_wildcard(names.fn) THEN 1 ELSE 0, names.fn)
  /\ nops' = nops + 1
  /\ UNCHANGED <<image, dirs, fault, m_format, files, names, dates>>

NextUpcase ==
  \/ Construct
  \/ ConstructRaw
  \/ Upcase
  \/ HasWildcard

SpecUpcase == InitUpcase /\ [][NextUpcase]_vars

---------------------------------------------------------------------------
(* SpecDate: Date(year, month, day) and the accessors of the Date made.    *)

MaxDateOps == 2

\* years at both ends of the range and beside them, and one for each bit
\* of the year field
Years ==
  {1975, 1976, 1977, 1978, 1980, 1984, 1992, 2008, 2040, 2102, 2103, 2104}

Months == (0 .. 13) \cup {16, 255}     \* std::uint8_t
Days == (0 .. 33) \cup {64, 255}       \* std::uint8_t

InitDate ==
  \E year \in Years, month \in Months, day \in Days :
    /\ image = ZeroImage
    /\ dirs = [h \in Handles |-> NoDir]
    /\ lastOp = NoOp
    /\ nops = 0
    /\ fault = "none"
    /\ m_format = "APEX_ORDER"
    /\ files = NoFiles
    /\ names = NoNames
    /\ dates = [NoDate EXCEPT !.given = <<year, month, day>>]

DateOp(op, ok, result) ==
  [OpRec(op, "", Res(ok), -1, -1, -1, -1, -1, result, FALSE, {}, NoPre)
     EXCEPT !.prev = [lastOp EXCEPT !.prev = << >>]]

\* Apex::Date d(year, month, day)
DateConstruct ==
  /\ fault = "none" /\ nops < MaxDateOps
  /\ dates.built = "no"
  /\ \E r \in {Date_construct(dates.given[1], dates.given[2], dates.given[3])} :
       /\ dates' = [dates EXCEPT !.built = Res(r.ok), !.m_raw = r.m_raw]
       /\ lastOp' = DateOp("Date", r.ok, r.m_raw)
  /\ nops' = nops + 1
  /\ UNCHANGED <<image, dirs, fault, m_format, files, names>>

\* d.get_year(), d.get_month(), d.get_day(): lastOp.ret is what it returned
DateGet(op, result) ==
  /\ fault = "none" /\ nops < MaxDateOps
  /\ dates.built = "ok"
  /\ lastOp' = DateOp(op, TRUE, result)
  /\ nops' = nops + 1
  /\ UNCHANGED <<image, dirs, fault, m_format, files, names, dates>>

GetYear == DateGet("get_year", Date_get_year(dates.m_raw))

GetMonth == DateGet("get_month", Date_get_month(dates.m_raw))

GetDay == DateGet("get_day", Date_get_day(dates.m_raw))

NextDate ==
  \/ DateConstruct
  \/ GetYear
  \/ GetMonth
  \/ GetDay

SpecDate == InitDate /\ [][NextDate]_vars

---------------------------------------------------------------------------
(* SpecPair: replace, delete_file, set_title and set_date on a Directory   *)
(* of the primary area and on one of the backup area, side by side.        *)

\* DirectoryEntry::replace arguments:
\* <<slot, status, filename, first_block, last_block>>
PairInputs ==
  { <<0, VALID, FnLower, 20, 25>>, <<1, VALID, FnUpper, 24, 30>> }

\* the image, handle A from get_directory(PRIMARY) and handle B from
\* get_directory(BACKUP)
InitPair ==
  \E img \in {FreshImage(VolumeBlocks)} :
    /\ image = img
    /\ \E p \in {get_directory(img, PRIMARY)}, b \in {get_directory(img, BACKUP)} :
         dirs = [h \in Handles |-> IF h = "A" THEN p.dir ELSE b.dir]
    /\ lastOp = NoOp
    /\ nops = 0
    /\ fault = "none"
    /\ m_format = "APEX_ORDER"
    /\ files = NoFiles /\ names = NoNames /\ dates = NoDate

NextPair ==
  \E h \in Handles :
    \/ \E a \in PairInputs : Replace(h, a[1], a[2], a[3], a[4], a[5], SomeDate)
    \/ \E slot \in DelSlots : DeleteFile(h, slot)
    \/ SetTitle(h, <<72, 105>>)
    \/ SetDate(h, (SomeDate + 1) % U16)

SpecPair == InitPair /\ [][NextPair]_vars

---------------------------------------------------------------------------
(* SpecWhole: a volume as large as the image: insert_file, delete_file and *)
(* Disk::read and Disk::write of single blocks at both ends of its file    *)
(* area.                                                                   *)

\* sizes of files, in blocks: the whole file area, one block less, one block
WholeSizes == {1, ImageBlocks - FILE_AREA_BEGIN - 1, ImageBlocks - FILE_AREA_BEGIN}

\* the first block of the file area and the last two of the volume
EdgeBlocks == {FILE_AREA_BEGIN, ImageBlocks - 2, ImageBlocks - 1}

InitWhole == \E img \in {FreshImage(ImageBlocks)} : InitVolume(img)

NextWhole ==
  \/ \E size \in WholeSizes : InsertFile("A", FnUpper, size, FillByte, SomeDate)
  \/ DeleteFile("A", 0)
  \/ \E b \in EdgeBlocks : DiskWrite(b, 1, FillByte)
  \/ \E b \in EdgeBlocks : DiskRead(b, 1)

SpecWhole == InitWhole /\ [][NextWhole]_vars

---------------------------------------------------------------------------
(* What the properties speak of.                                           *)

Slots == 0 .. (ENTRIES_PER_DIRECTORY - 1)

ValidSlots(data) == {i \in Slots : get_status(data, i) = VALID}

\* the blocks of entry i's [first_block, last_block]
EntryBlocks(data, i) == get_first_block(data, i) .. get_last_block(data, i)

\* the file area [17, volume_size)
FileArea(data) == FILE_AREA_BEGIN .. (volume_size_blocks(data) - 1)

---------------------------------------------------------------------------
(* Properties of Spec.                                                     *)

\* C1: after any sequence of insert_file and delete_file on a freshly
\* initialized volume, the block range of every VALID entry lies inside the
\* file area [17, volume_size) and shares no block with the range of any
\* other VALID entry.
C1_ValidRangesInFileAreaAndDisjoint ==
  LET data == dirs["A"].data
  IN  \A i \in ValidSlots(data) :
        /\ EntryBlocks(data, i) \subseteq FileArea(data)
        /\ \A j \in ValidSlots(data) \ {i} :
             EntryBlocks(data, i) \cap EntryBlocks(data, j) = {}

\* C1: an insert_file that found no run has returned normally
C1_SentinelInsertReturned ==
  /\ lastOp.op = "insert_file"
  /\ lastOp.n > 0
  /\ lastOp.ret = 0
  /\ lastOp.res = "ok"

\* C2: when find_free_blocks returns the sentinel 0, insert_file fails,
\* writes no block of the image and leaves the slot it took as it was (no
\* entry becomes VALID).
C2_NoRunInsertFailsChangingNothing ==
  (lastOp.op = "insert_file" /\ lastOp.n > 0 /\ lastOp.ret = 0)
    => /\ lastOp.res = "error"
       /\ lastOp.touched = {}
       /\ get_status(dirs[lastOp.h].data, lastOp.slot) = lastOp.pre.status

\* C2: an insert_file that found no run has written blocks of the image
C2_SentinelInsertWrote ==
  /\ lastOp.op = "insert_file"
  /\ lastOp.ret = 0
  /\ \E b \in lastOp.touched \ DirArea :
       b < FILE_AREA_BEGIN /\ image[b] = FillByte

---------------------------------------------------------------------------
(* Properties of SpecRW.                                                   *)

\* blocks b .. b+count-1 are all blocks of the image
BlocksInside(b, count) == b >= 0 /\ b + count - 1 < ImageBlocks

\* C3: a Disk::read or Disk::write of blocks that are not all inside the
\* image fails with the bounds error and copies nothing: it never accesses
\* some other block of the image instead.
C3_AccessOutsideImageFails ==
  (lastOp.op \in {"Disk::read", "Disk::write"}
     /\ ~ BlocksInside(lastOp.fst, lastOp.n))
    => (lastOp.res = "error" /\ lastOp.touched = {})

\* C3: a write to block 4096 has returned normally, having written block 0
C3_WrappedWriteReturned ==
  /\ lastOp.op = "Disk::write"
  /\ lastOp.fst = 4096
  /\ lastOp.res = "ok"
  /\ 0 \in lastOp.touched
  /\ image[0] = FillByte

---------------------------------------------------------------------------
(* Properties of SpecFind.                                                 *)

\* blocks b .. b+n-1 are all free
RunFree(bm, b, n) == \A k \in b .. (b + n - 1) : k \in DOMAIN bm /\ bm[k]

\* C4: find_free_blocks(n), n >= 1, returns the smallest block b with blocks
\* b .. b+n-1 all free (the start of the first free run of length >= n) and
\* returns 0 exactly when there is no such block; the result is never a block
\* of 1..16, and the bitmap is as it was before the call.
C4_FirstFitOrSentinel ==
  (lastOp.op = "find_free_blocks" /\ lastOp.n >= 1)
    => LET bm == dirs[lastOp.h].bitmap
           starts == {b \in DOMAIN bm : RunFree(bm, b, lastOp.n)}
       IN  /\ starts # {} => /\ lastOp.ret \in starts
                             /\ \A b \in starts : lastOp.ret <= b
           /\ starts = {} <=> lastOp.ret = 0
           /\ lastOp.ret \notin 1 .. (FILE_AREA_BEGIN - 1)
           /\ bm = lastOp.pre.bitmap
           /\ volume_free_blocks(dirs[lastOp.h]) = lastOp.pre.free

\* C4: with free runs of 3, 10 and 5 blocks, find_free_blocks(4) has
\* returned the start of the run of 10
C4_RunOfTenChosen ==
  LET bm == dirs["A"].bitmap
  IN  /\ lastOp.op = "find_free_blocks"
      /\ lastOp.n = 4
      /\ lastOp.ret = 21
      /\ RunFree(bm, 17, 3) /\ ~ bm[20]
      /\ RunFree(bm, 21, 10) /\ ~ bm[31]
      /\ RunFree(bm, 32, 5) /\ ~ bm[37]

---------------------------------------------------------------------------
(* Properties of SpecDir.                                                  *)

\* the Directory objects there are: the handles, and the two that the last
\* Disk::initialize made
LiveDirectories ==
  {dirs[h] : h \in {g \in Handles : dirs[g].start # 0}}
    \cup {lastOp.made[k] : k \in DOMAIN lastOp.made}

\* the blocks that VALID entries hold
ReservedBlocks(data) == UNION {EntryBlocks(data, i) : i \in ValidSlots(data)}

\* C5: after Directory construction and after every entry mutation (replace,
\* delete_file, initialize) the free bitmap has one bit for each block of the
\* volume, and bit b is set exactly when 17 <= b < volume_size and no VALID
\* entry's [first_block, last_block] contains b: blocks 0..16 are never free,
\* entries whose status is not VALID reserve nothing, and
\* volume_free_blocks() is the number of those blocks.
C5_BitmapIsFileAreaMinusValidRanges ==
  \A d \in LiveDirectories :
    /\ DOMAIN d.bitmap = 0 .. (volume_size_blocks(d.data) - 1)
    /\ \A b \in DOMAIN d.bitmap :
         d.bitmap[b] <=> (b \in FileArea(d.data)
                            /\ b \notin ReservedBlocks(d.data))
    /\ \A b \in 0 .. (FILE_AREA_BEGIN - 1) : ~ d.bitmap[b]
    /\ volume_free_blocks(d)
         = Cardinality(FileArea(d.data) \ ReservedBlocks(d.data))

\* C5: a TENTATIVE entry for [31,33] is in the directory beside a VALID
\* entry, and block 31 is free while the VALID entry's blocks are not
C5_TentativeEntryReservesNothing ==
  LET d == dirs["A"]
  IN  /\ lastOp.op = "replace" /\ lastOp.res = "ok"
      /\ get_status(d.data, 2) = TENTATIVE
      /\ get_first_block(d.data, 2) = 31
      /\ d.bitmap[31]
      /\ \E i \in ValidSlots(d.data) :
           EntryBlocks(d.data, i) # {}
             /\ \A b \in EntryBlocks(d.data, i) : ~ d.bitmap[b]

\* the last operation was a successful replace that made a VALID entry over
\* blocks that were all free
MadeValidOverFree(op) ==
  /\ op.op = "replace" /\ op.res = "ok" /\ op.status = VALID
  /\ op.n >= 1
  /\ \A b \in op.fst .. op.lst : b \in DOMAIN op.pre.bitmap /\ op.pre.bitmap[b]

\* C6: on a directory with zero VALID entries volume_free_blocks() is the
\* file-area length volume_size - 17; a replace that makes a VALID entry over
\* n previously free file-area blocks lowers the free count by exactly n and
\* makes those n bits unavailable; a delete_file on that entry right after
\* restores the bitmap and the free count to what they were before the
\* replace.
C6_FreeCountFollowsReplaceAndDelete ==
  /\ \A d \in LiveDirectories :
       ValidSlots(d.data) = {}
         => volume_free_blocks(d) = volume_size_blocks(d.data) - FILE_AREA_BEGIN
  /\ MadeValidOverFree(lastOp)
       => /\ volume_free_blocks(dirs[lastOp.h]) = lastOp.pre.free - lastOp.n
          /\ \A b \in lastOp.fst .. lastOp.lst : ~ dirs[lastOp.h].bitmap[b]
  /\ (lastOp.op = "delete_file" /\ lastOp.res = "ok"
        /\ MadeValidOverFree(lastOp.prev)
        /\ lastOp.prev.h = lastOp.h /\ lastOp.prev.slot = lastOp.slot)
       => /\ dirs[lastOp.h].bitmap = lastOp.prev.pre.bitmap
          /\ volume_free_blocks(dirs[lastOp.h]) = lastOp.prev.pre.free

\* C6: the VALID entry for [20,25] was made over free blocks, taking the free
\* count from 23 to 17, and has just been deleted
C6_EntryMadeThenDeleted ==
  /\ lastOp.op = "delete_file" /\ lastOp.slot = 0
  /\ MadeValidOverFree(lastOp.prev)
  /\ lastOp.prev.slot = 0 /\ lastOp.prev.fst = 20 /\ lastOp.prev.lst = 25
  /\ lastOp.prev.pre.free = VolumeBlocks - FILE_AREA_BEGIN
  /\ lastOp.pre.free = VolumeBlocks - FILE_AREA_BEGIN - 6
  /\ volume_free_blocks(dirs["A"]) = VolumeBlocks - FILE_AREA_BEGIN

\* C7: replace() on a slot whose status is anything other than INVALID fails
\* with an error and leaves the directory buffer (the slot's bytes and the
\* unsorted flag with it), the free bitmap and the disk image unchanged.
C7_ReplaceOfUsedSlotFailsChangingNothing ==
  [][(nops' = nops + 1 /\ lastOp'.op = "replace"
        /\ lastOp'.pre.status # INVALID)
       => /\ lastOp'.res = "error"
          /\ dirs' = dirs
          /\ image' = image]_vars

\* C7: a replace has been refused on a slot whose status was TENTATIVE
C7_ReplaceRefusedOnTentativeSlot ==
  /\ lastOp.op = "replace"
  /\ lastOp.pre.status = TENTATIVE
  /\ lastOp.res = "error"
  /\ get_status(dirs["A"].data, lastOp.slot) = TENTATIVE

\* C10: Disk::initialize(block_count, volume_number) zero-fills the image
\* before initializing the directories: whatever the image held, afterwards
\* every byte outside the two directory areas is zero, the primary and the
\* backup directory are byte-identical, neither contains a VALID entry, and
\* volume_free_blocks() of each is block_count - 17.
C10_InitializeLeavesBlankVolume ==
  (lastOp.op = "Disk::initialize" /\ lastOp.res = "ok")
    => /\ \A b \in (DOMAIN image) \ DirArea : image[b] = 0
       /\ \A k \in 0 .. (BLOCKS_PER_DIRECTORY - 1) :
            image[PRIMARY + k] = image[BACKUP + k]
       /\ \A k \in DOMAIN lastOp.made :
            /\ ValidSlots(lastOp.made[k].data) = {}
            /\ volume_free_blocks(lastOp.made[k]) = lastOp.n - FILE_AREA_BEGIN

\* C10: Disk::initialize has returned on a volume that held a file: the
\* file's data is still in block 17 and its VALID entry in the primary
\* directory, which differs from the backup
C10_FileSurvivedInitialize ==
  /\ lastOp.op = "Disk::initialize" /\ lastOp.res = "ok"
  /\ lastOp.prev.op = "insert_file"
  /\ image[FILE_AREA_BEGIN] = FillByte
  /\ ValidSlots(lastOp.made[1].data) # {}
  /\ volume_free_blocks(lastOp.made[1]) < lastOp.n - FILE_AREA_BEGIN
  /\ \E k \in 0 .. (BLOCKS_PER_DIRECTORY - 1) :
       image[PRIMARY + k] # image[BACKUP + k]

\* the entry mutators
EntryMutators == {"replace", "delete_file", "insert_file"}

\* C11: two Directory handles for the same directory area are independent
\* snapshots: a replace or delete_file through handle A leaves what handle B
\* returns (entry status, block ranges, volume_free_blocks) as it was, and a
\* handle obtained from get_directory for A's area right after A's
\* successful mutation holds what A holds.
C11_HandlesAreIndependentSnapshots ==
  [][nops' = nops + 1
       => /\ (lastOp'.op \in EntryMutators /\ lastOp'.h = "A")
               => dirs'["B"] = dirs["B"]
          /\ (lastOp'.op = "get_directory" /\ lastOp.op \in EntryMutators
                /\ lastOp.res = "ok" /\ lastOp.h = "A"
                /\ lastOp'.fst = dirs["A"].start)
               => /\ dirs'[lastOp'.h].data = dirs["A"].data
                  /\ dirs'[lastOp'.h].bitmap = dirs["A"].bitmap]_vars

\* C11: handle B was made for the primary directory before handle A made a
\* VALID entry there: B still shows the slot INVALID and the former free
\* count
C11_StaleHandleBesideMutatedOne ==
  /\ lastOp.op = "replace" /\ lastOp.res = "ok" /\ lastOp.h = "A"
  /\ lastOp.status = VALID
  /\ dirs["B"].start = dirs["A"].start
  /\ get_status(dirs["A"].data, lastOp.slot) = VALID
  /\ get_status(dirs["B"].data, lastOp.slot) = INVALID
  /\ volume_free_blocks(dirs["B"]) = lastOp.pre.free
  /\ volume_free_blocks(dirs["A"]) < lastOp.pre.free

---------------------------------------------------------------------------
(* Properties of SpecSlots.                                                *)

\* C8: allocate_directory_entry() returns the lowest-index slot whose status
\* is INVALID and fails exactly when no slot is INVALID: with all 48 slots
\* VALID it fails, and after a delete_file on one of the 48 it succeeds and
\* returns that slot.
C8_LowestInvalidSlotOrExhausted ==
  lastOp.op = "allocate_directory_entry"
    => LET data == dirs[lastOp.h].data
           invalid == {i \in Slots : get_status(data, i) = INVALID}
       IN  /\ lastOp.res = "error" <=> invalid = {}
           /\ invalid # {} => /\ lastOp.ret \in invalid
                              /\ \A i \in invalid : lastOp.ret <= i
           /\ ValidSlots(data) = Slots => lastOp.res = "error"
           /\ (lastOp.prev.op = "delete_file" /\ lastOp.prev.h = lastOp.h
                 /\ lastOp.prev.pre.invalid = {})
                => (lastOp.res = "ok" /\ lastOp.ret = lastOp.prev.slot)

\* C8: slot 5 of the full directory was deleted and the allocation after it
\* returned slot 5
C8_DeletedSlotReturned ==
  /\ lastOp.op = "allocate_directory_entry"
  /\ lastOp.res = "ok" /\ lastOp.ret = 5
  /\ lastOp.prev.op = "delete_file" /\ lastOp.prev.slot = 5
  /\ lastOp.prev.pre.invalid = {}
  /\ lastOp.prev.pre.status = VALID
  /\ ValidSlots(dirs["A"].data) = Slots \ {5}

---------------------------------------------------------------------------
(* Properties of SpecMeta.                                                 *)

\* the operations C9 names
Mutators ==
  {"replace", "delete_file", "set_date", "set_title", "set_unsorted",
   "set_locked"}

\* C9: every mutation is written through: when replace, delete_file,
\* set_date, set_title, set_unsorted or set_locked returns successfully, the
\* four directory blocks of that directory in the disk image are
\* byte-identical to the Directory's 1024-byte buffer.
C9_MutatorsWriteThrough ==
  (lastOp.op \in Mutators /\ lastOp.res = "ok")
    => LET d == dirs[lastOp.h]
       IN  \A k \in 1 .. BLOCKS_PER_DIRECTORY :
             image[d.start + k - 1] = d.data[k]

\* C9: set_locked(true) has returned with the lock flag 0x00 in the buffer
\* and 0xff in the image
C9_LockFlagNotInImage ==
  LET d == dirs["A"]
  IN  /\ lastOp.op = "set_locked" /\ lastOp.res = "ok"
      /\ Byte(d.data, FLAG_LOCK) = 0
      /\ image[d.start + (FLAG_LOCK \div BYTES_PER_BLOCK)]
              [FLAG_LOCK % BYTES_PER_BLOCK] = 255

---------------------------------------------------------------------------
(* Properties of SpecDamaged.                                              *)

\* the operations that ran update_free_bitmap
Rebuilt ==
  /\ lastOp.op \in {"replace", "delete_file", "get_directory"}
  /\ lastOp.res # "error"

\* some VALID entry's range holds a block outside the file area or a block
\* of another VALID entry's range
RangesInconsistent(data) ==
  \E i \in ValidSlots(data) :
    \E b \in EntryBlocks(data, i) :
      \/ b \notin FileArea(data)
      \/ \E j \in ValidSlots(data) \ {i} : b \in EntryBlocks(data, j)

\* C12: the bitmap rebuild emits the inconsistency report exactly when some
\* VALID entry's range contains a block outside the file area or a block
\* already claimed by another VALID entry; the rebuild then does not throw,
\* the operation that triggered it completes, and every block claimed by a
\* VALID entry ends up not free.
C12_ReportExactlyWhenInconsistent ==
  Rebuilt
    => LET d == dirs[lastOp.h]
       IN  /\ lastOp.res = "ok"
           /\ lastOp.report <=> RangesInconsistent(d.data)
           /\ \A i \in ValidSlots(d.data) :
                \A b \in EntryBlocks(d.data, i) :
                  b \in DOMAIN d.bitmap => ~ d.bitmap[b]

\* C12: a replace made a VALID entry that ends past the volume, and the
\* rebuild ended the process
C12_RebuildPastVolumeAborted ==
  /\ lastOp.op = "replace" /\ lastOp.status = VALID
  /\ lastOp.lst >= volume_size_blocks(dirs["A"].data)
  /\ lastOp.res = "abort"
  /\ fault = "abort"

\* some VALID entry starts below the file area or ends past the volume
RangeOutsideVolume(data) ==
  \E i \in ValidSlots(data) :
    \/ get_first_block(data, i) < FILE_AREA_BEGIN
    \/ get_last_block(data, i) >= volume_size_blocks(data)

\* C13: a damaged directory remains inspectable: whatever the 1024 bytes of
\* the directory are, a VALID entry whose last_block is >= volume_size or
\* whose first_block is < 17 included, constructing the Directory completes
\* without failure, the rebuild reads and writes only bitmap positions in
\* [0, volume_size), and the out-of-range entry is reported as an
\* inconsistency.
C13_DamagedDirectoryConstructs ==
  lastOp.op = "get_directory"
    => /\ lastOp.res = "ok"
       /\ fault = "none"
       /\ RangeOutsideVolume(dirs[lastOp.h].data) => lastOp.report

\* C13: get_directory on an image whose entry ends past the volume has
\* indexed the bitmap outside its size and gone on without the report
C13_ConstructionLeftDefinedBehaviour ==
  /\ lastOp.op = "get_directory"
  /\ fault = "ub"
  /\ ~ lastOp.report
  /\ \E i \in ValidSlots(dirs[lastOp.h].data) :
       get_last_block(dirs[lastOp.h].data, i)
         >= volume_size_blocks(dirs[lastOp.h].data)

---------------------------------------------------------------------------
(* Properties of SpecLoad.                                                 *)

\* the source file holds exactly the bytes of a disk of the image's format
FullLengthSource ==
  files.src.open /\ Len(files.src.sectors) = SectorsPerDisk(m_format)

Interleaved == geometry[m_format].deinterleave_table # << >>

\* the (track, physical sector) pairs of the image's format
TrackSectors ==
  (0 .. (geometry[m_format].cylinders - 1))
    \X (0 .. (geometry[m_format].sectors - 1))

\* where the sector at physical position ts[2] of track ts[1] is in a file,
\* and where it belongs in the image
FilePosition(ts) == ts[1] * geometry[m_format].sectors + ts[2] + 1

ImagePosition(ts) ==
  ts[1] * geometry[m_format].sectors
    + geometry[m_format].deinterleave_table[ts[2] + 1]

\* C14: for every format, load of a stream of bytes_per_disk bytes succeeds
\* and a save after it writes the same stream; with an interleave table load
\* puts the sector at physical position p of a track at logical position
\* table[p], and save writes it back from there to position p.
C14_LoadThenSaveRoundTrips ==
  /\ (lastOp.op = "load" /\ FullLengthSource)
       => /\ lastOp.res = "ok"
          /\ Interleaved
               => \A ts \in TrackSectors :
                    image[ImagePosition(ts)] = files.src.sectors[FilePosition(ts)]
  /\ (lastOp.op = "save" /\ lastOp.res = "ok")
       => /\ Len(files.dst.sectors) = SectorsPerDisk(m_format)
          /\ Interleaved
               => \A ts \in TrackSectors :
                    files.dst.sectors[FilePosition(ts)] = image[ImagePosition(ts)]
          /\ (lastOp.prev.op = "load" /\ FullLengthSource)
               => files.dst.sectors = files.src.sectors

\* a DOS-order stream whose sectors differ was loaded, its second sector
\* went to logical sector 7, and the save after it wrote the stream again
C14_DosStreamCameBack ==
  /\ lastOp.op = "save" /\ lastOp.res = "ok"
  /\ lastOp.prev.op = "load" /\ lastOp.prev.res = "ok"
  /\ m_format = "DOS_ORDER" /\ FullLengthSource
  /\ files.src.sectors[2] # files.src.sectors[8]
  /\ image[7] = files.src.sectors[2]
  /\ files.dst.sectors = files.src.sectors

\* C17: load fails with an I/O error whenever the source cannot be opened or
\* holds fewer than bytes_per_disk bytes, whatever the format, with or
\* without an interleave table.
C17_ShortOrMissingSourceFails ==
  (lastOp.op = "load" /\ ~ FullLengthSource
     /\ Len(files.src.sectors) < SectorsPerDisk(m_format))
    => lastOp.res = "error"

\* a 13-sector image was loaded from a file one sector short and load
\* returned normally, the last sector of the image left as it was
C17_ShortThirteenSectorLoaded ==
  /\ lastOp.op = "load" /\ lastOp.res = "ok"
  /\ m_format = "THIRTEEN_SECTOR"
  /\ files.src.open
  /\ Len(files.src.sectors) = SectorsPerDisk(m_format) - 1
  /\ image[SectorsPerDisk(m_format) - 1] = 0

---------------------------------------------------------------------------
(* Properties of SpecMaps.                                                 *)

SectorNumbers == 0 .. (SECTORS_PER_TRACK - 1)

\* the physical-to-logical table of the format in hand
PhysToLog ==
  IF lastOp.h = "DiskImage"
  THEN geometry[m_format].deinterleave_table
  ELSE physical_to_logical_sector_map[m_format]

\* C15: for every format with an interleave table the physical-to-logical
\* table is a permutation of 0 .. sectors_per_track - 1, and the
\* logical-to-physical and physical-to-logical tables undo each other on
\* every sector number, in both orders.
C15_SectorMapsAreInversePermutations ==
  /\ Len(PhysToLog) = SECTORS_PER_TRACK
  /\ {PhysToLog[p + 1] : p \in SectorNumbers} = SectorNumbers
  /\ lastOp.op \in {"physical_to_logical", "deinterleave"}
       => /\ lastOp.ret \in SectorNumbers
          /\ \A p \in SectorNumbers \ {lastOp.fst} : PhysToLog[p + 1] # lastOp.ret
  /\ (lastOp.op = "physical_to_logical" /\ lastOp.prev.op = "logical_to_physical")
       => lastOp.ret = lastOp.prev.fst
  /\ (lastOp.op = "logical_to_physical" /\ lastOp.prev.op = "physical_to_logical")
       => lastOp.ret = lastOp.prev.fst
  /\ lastOp.op = "validate_sector_maps" => lastOp.n = 0 /\ lastOp.res = "ok"

\* DOS-order sector 1 went to physical sector 13 and came back as 1
C15_DosSectorWentThereAndBack ==
  /\ m_format = "DOS_ORDER"
  /\ lastOp.op = "physical_to_logical" /\ lastOp.fst = 13 /\ lastOp.ret = 1
  /\ lastOp.prev.op = "logical_to_physical" /\ lastOp.prev.fst = 1

---------------------------------------------------------------------------
(* Properties of SpecImage.                                                *)

ImageOps == {"DiskImage::read", "DiskImage::write"}

\* C16: DiskImage::read and DiskImage::write reject an access exactly when
\* byte_offset + count * bytes_per_sector >= the image's size: on the
\* 560-block image an access that includes block 559 fails, one that ends at
\* or before block 558 succeeds and copies exactly its count sectors, to or
\* from the sectors it names, and a rejected access copies nothing.
C16_AccessRejectedFromLastBlockOn ==
  [][(nops' = nops + 1 /\ lastOp'.op \in ImageOps)
       => LET o == lastOp'
              sectors == o.fst .. o.lst
          IN  /\ o.res = "error"
                   <=> (o.fst + o.n) * BytesPerSector >= ImageBytes
              /\ (ImageBlocks - 1) \in sectors => o.res = "error"
              /\ o.lst <= ImageBlocks - 2 => o.res = "ok"
              /\ o.res = "error" => image' = image /\ o.touched = {}
              /\ o.res = "ok"
                   => /\ o.touched = sectors
                      /\ Len(o.made) = o.n
                      /\ IF o.op = "DiskImage::read"
                         THEN /\ image' = image
                              /\ \A k \in 1 .. o.n :
                                   o.made[k] = BlockBytes(image, o.fst + k - 1)
                         ELSE /\ \A b \in sectors :
                                   BlockBytes(image', b) = o.made[b - o.fst + 1]
                              /\ \A b \in DOMAIN image \ sectors :
                                   image'[b] = image[b]]_vars

\* a read of block 559 alone was rejected, and then a write of block 558
\* alone went through
C16_Block558WrittenAfter559Refused ==
  /\ lastOp.op = "DiskImage::write" /\ lastOp.res = "ok"
  /\ lastOp.fst = ImageBlocks - 2 /\ lastOp.n = 1
  /\ BlockBytes(image, ImageBlocks - 2) = Uniform(FillByte)
  /\ lastOp.prev.op = "DiskImage::read" /\ lastOp.prev.res = "error"
  /\ lastOp.prev.fst = ImageBlocks - 1 /\ lastOp.prev.n = 1

---------------------------------------------------------------------------
(* Properties of SpecName.                                                 *)

IsLetter(c) == (c >= CHAR_A /\ c <= CHAR_Z) \/ (c >= CHAR_a /\ c <= CHAR_z)

IsDigit(c) == c >= CHAR_0 /\ c <= CHAR_9

\* where the dots of a filespec are
Dots(p) == {i \in 1 .. Len(p) : p[i] = CHAR_DOT}

FirstDot(p) == CHOOSE i \in Dots(p) : \A j \in Dots(p) : i <= j

\* the name component of a filespec: what is before its first dot
NameOf(p) == IF Dots(p) = {} THEN p ELSE SubSeq(p, 1, FirstDot(p) - 1)

\* the extension component: what is between its first dot and the next, or
\* the end
ExtOf(p) ==
  IF Dots(p) = {} THEN << >>
  ELSE LET later == Dots(p) \ {FirstDot(p)}
           stop == IF later = {} THEN Len(p) + 1
                   ELSE CHOOSE i \in later : \A j \in later : i <= j
       IN  SubSeq(p, FirstDot(p) + 1, stop - 1)

\* the five faults of a filespec
ComponentTooLong(p) ==
  Len(NameOf(p)) > FILENAME_CHARS \/ Len(ExtOf(p)) > EXTENSION_CHARS

CharacterAfterStar(p) ==
  \E c \in {NameOf(p), ExtOf(p)} :
    \E i \in 1 .. Len(c) : c[i] = CHAR_STAR /\ i < Len(c)

SecondDot(p) == Cardinality(Dots(p)) >= 2

DigitFirst(p) ==
  \E c \in {NameOf(p), ExtOf(p)} : Len(c) > 0 /\ IsDigit(c[1])

OtherCharacter(p) ==
  \E i \in 1 .. Len(p) :
    ~ (IsLetter(p[i]) \/ IsDigit(p[i])
         \/ p[i] \in {CHAR_QUESTION, CHAR_STAR, CHAR_DOT})

\* a component X*, X made of letters and digits; X is StarPrefix
IsStarForm(c) ==
  /\ Len(c) >= 1
  /\ c[Len(c)] = CHAR_STAR
  /\ \A i \in 1 .. (Len(c) - 1) : IsLetter(c[i]) \/ IsDigit(c[i])

StarPrefix(c) == SubSeq(c, 1, Len(c) - 1)

\* the component begins with x, letters compared without their case
BeginsWith(component, x) ==
  /\ Len(x) <= Len(component)
  /\ \A i \in 1 .. Len(x) :
       upcase_character(component[i]) = upcase_character(x[i])

\* whether a component of the filespec and that of the Filename made of it
\* should match a component of a filename: by its prefix when it is X*
ComponentMatches(c, pat, component) ==
  IF IsStarForm(c) THEN BeginsWith(component, StarPrefix(c))
  ELSE part_match(pat, component)

\* C18: a * matches whatever is left of the component: *.* matches every
\* filename, a component X* matches exactly the components that begin with
\* X whatever the case of the letters, X itself included, and match returns
\* true only when both the name and the extension match.
C18_StarMatchesTheRemainder ==
  lastOp.op = "match"
    => LET p == names.pattern
           other == lastOp.made
       IN  /\ p = Str(<<"*", ".", "*">>) => lastOp.ret = 1
           /\ lastOp.ret = 1
                <=> /\ ComponentMatches(NameOf(p), names.fn.name, other.name)
                    /\ ComponentMatches(ExtOf(p), names.fn.ext, other.ext)

\* A* was matched against A and match returned true
C18_StarMatchedNothingLeft ==
  /\ lastOp.op = "match" /\ lastOp.ret = 1
  /\ names.pattern = Str(<<"A", "*">>)
  /\ lastOp.made = MkFilename(Str(<<"A">>), << >>)

\* C19: a ? matches exactly one character: match returns true only when
\* the filename has a character at the place of each ?, and A?.TXT matches
\* AB.TXT and A1.TXT and neither ABC.TXT nor A.TXT.
C19_QuestionMarkTakesOneCharacter ==
  lastOp.op = "match"
    => LET other == lastOp.made
       IN  /\ lastOp.ret = 1
                => /\ \A i \in 1 .. FILENAME_CHARS :
                        names.fn.name[i] = CHAR_QUESTION
                          => other.name[i] # CHAR_SPACE
                   /\ \A i \in 1 .. EXTENSION_CHARS :
                        names.fn.ext[i] = CHAR_QUESTION
                          => other.ext[i] # CHAR_SPACE
           /\ names.pattern = Str(<<"A", "?", ".", "T", "X", "T">>)
                => (lastOp.ret = 1
                      <=> other \in
                            {MkFilename(Str(<<"A", "B">>), Str(<<"T", "X", "T">>)),
                             MkFilename(Str(<<"A", "1">>), Str(<<"T", "X", "T">>))})

\* A?.TXT was matched against A.TXT and match returned true
C19_QuestionMarkMatchedThePadding ==
  /\ lastOp.op = "match" /\ lastOp.ret = 1
  /\ names.pattern = Str(<<"A", "?", ".", "T", "X", "T">>)
  /\ lastOp.made = MkFilename(Str(<<"A">>), Str(<<"T", "X", "T">>))

\* C20: Filename(pattern) throws FilenameError exactly when a component is
\* longer than its 8 or 3 places, a character follows a * in its component,
\* there is a second dot, a digit is the first character of a component, or
\* there is a character that is no letter, digit, ?, * or dot; otherwise it
\* makes the Filename, both components filled up with spaces.
C20_FilespecRefusedExactlyForItsFaults ==
  lastOp.op = "Filename"
    => LET p == names.pattern
       IN  /\ lastOp.res = "error"
                <=> \/ ComponentTooLong(p)
                    \/ CharacterAfterStar(p)
                    \/ SecondDot(p)
                    \/ DigitFirst(p)
                    \/ OtherCharacter(p)
           /\ lastOp.res = "ok"
                => /\ names.built = "ok"
                   /\ names.fn.name = Pad(NameOf(p), FILENAME_CHARS)
                   /\ names.fn.ext = Pad(ExtOf(p), EXTENSION_CHARS)
           /\ lastOp.res = "error" => names.built = "error"

\* the filespec 1A, a digit first and nothing else wrong, was refused
C20_DigitFirstRefused ==
  /\ lastOp.op = "Filename" /\ lastOp.res = "error"
  /\ names.pattern = Str(<<"1", "A">>)
  /\ DigitFirst(names.pattern)
  /\ ~ ComponentTooLong(names.pattern) /\ ~ CharacterAfterStar(names.pattern)
  /\ ~ SecondDot(names.pattern) /\ ~ OtherCharacter(names.pattern)

\* the letter of the other case, or the character itself if it is no letter
OtherCase(c) ==
  IF c >= CHAR_a /\ c <= CHAR_z THEN c - (CHAR_a - CHAR_A)
  ELSE IF c >= CHAR_A /\ c <= CHAR_Z THEN c + (CHAR_a - CHAR_A)
  ELSE c

\* the character strings got from cs by putting some of its letters in
\* their other case
RECURSIVE CaseVariants(_)
CaseVariants(cs) ==
  IF cs = << >> THEN {<< >>}
  ELSE {<<c>> \o t : c \in {Head(cs), OtherCase(Head(cs))},
                     t \in CaseVariants(Tail(cs))}

\* the Filenames got from f in that way
FilenameCaseVariants(f) ==
  {[f EXCEPT !.name = n, !.ext = e] :
     n \in CaseVariants(f.name), e \in CaseVariants(f.ext)}

\* C21: match does not look at the case of letters: for a pattern p and a
\* filename n, p.match(n) is what match returns when some letters of p, or
\* some letters of n, are put in their other case.
C21_MatchIgnoresCase ==
  lastOp.op = "match"
    => /\ \A p \in FilenameCaseVariants(names.fn) :
            Filename_match(p, lastOp.made) = (lastOp.ret = 1)
       /\ \A n \in FilenameCaseVariants(lastOp.made) :
            Filename_match(names.fn, n) = (lastOp.ret = 1)

\* the pattern b was matched against the filename B and match returned true
C21_LowerPatternMatchedUpperName ==
  /\ lastOp.op = "match" /\ lastOp.ret = 1
  /\ names.pattern = Str(<<"b">>)
  /\ lastOp.made = MkFilename(Str(<<"B">>), << >>)

---------------------------------------------------------------------------
(* Properties of SpecUpcase.                                               *)

\* the 11 characters of a Filename
Characters(f) == f.name \o f.ext

IsLower(c) == c >= CHAR_a /\ c <= CHAR_z

\* C22: upcase changes the letters a-z into A-Z and no other character,
\* upcase of its own result has the same 11 characters, and names that
\* differ only in the case of letters have the same upcase.
C22_UpcaseIdempotentOnLowerLettersOnly ==
  [][(nops' = nops + 1 /\ lastOp'.op = "upcase")
       => LET before == Characters(names.fn)
              after == Characters(names'.fn)
          IN  /\ Len(after) = FILENAME_CHARS + EXTENSION_CHARS
              /\ \A i \in 1 .. Len(after) :
                   after[i] = IF IsLower(before[i])
                              THEN before[i] - (CHAR_a - CHAR_A)
                              ELSE before[i]
              /\ lastOp.op = "upcase" => after = before
              /\ \A g \in FilenameCaseVariants(names.fn) :
                   Characters(Filename_upcase(g)) = after]_vars

\* a?......T.. from the bytes of an entry was upcased twice: the first made
\* A?......T.., the second left it so
C22_UpcasedTwice ==
  /\ lastOp.op = "upcase" /\ lastOp.prev.op = "upcase"
  /\ names.pattern = RawOf(MkFilename(Str(<<"a", "?">>), Str(<<"T">>)))
  /\ Characters(names.fn) = RawOf(MkFilename(Str(<<"A", "?">>), Str(<<"T">>)))
  /\ Characters(lastOp.prev.made) = Characters(names.fn)

ContainsWildcard(f) ==
  \E i \in 1 .. (FILENAME_CHARS + EXTENSION_CHARS) :
    Characters(f)[i] \in {CHAR_QUESTION, CHAR_STAR}

\* C23: whichever way a Filename was made, by the filespec constructor, by
\* the raw-bytes constructor or by upcase of either, has_wildcard returns
\* true exactly when its name or its extension holds a ? or a *.
C23_HasWildcardTellsWildcards ==
  lastOp.op = "has_wildcard"
    => (lastOp.ret = 1 <=> ContainsWildcard(names.fn))

\* the filespec A* was made a Filename and upcased, and has_wildcard of the
\* result, A*, returned false
C23_UpcasedPatternLostItsWildcard ==
  /\ lastOp.op = "has_wildcard" /\ lastOp.ret = 0
  /\ lastOp.prev.op = "upcase"
  /\ names.pattern = Str(<<"A", "*">>)
  /\ names.fn.name[2] = CHAR_STAR

---------------------------------------------------------------------------
(* Properties of SpecDate.                                                 *)

\* bits hi .. lo of a 16-bit value
Bits(v, hi, lo) == (v \div (2 ^ lo)) % (2 ^ (hi - lo + 1))

GivenInRange ==
  /\ dates.given[1] \in 1976 .. 2103
  /\ dates.given[2] \in 1 .. 12
  /\ dates.given[3] \in 1 .. 31

\* C24: for a year in 1976 .. 2103, a month in 1 .. 12 and a day in 1 .. 31
\* the Date made fits in 16 bits, holds year - 1976 in bits 15..9, the month
\* in bits 8..5 and the day in bits 4..0, and get_year, get_month and
\* get_day return the year, the month and the day given.
C24_DatePacksAndUnpacks ==
  (GivenInRange /\ dates.built # "no")
    => /\ dates.built = "ok"
       /\ dates.m_raw \in 0 .. (2 ^ 16 - 1)
       /\ Bits(dates.m_raw, 15, 9) = dates.given[1] - 1976
       /\ Bits(dates.m_raw, 8, 5) = dates.given[2]
       /\ Bits(dates.m_raw, 4, 0) = dates.given[3]
       /\ lastOp.op = "get_year" => lastOp.ret = dates.given[1]
       /\ lastOp.op = "get_month" => lastOp.ret = dates.given[2]
       /\ lastOp.op = "get_day" => lastOp.ret = dates.given[3]

\* get_month of the Date made of 2103, 12, 31 returned 12
C24_DecemberOfLastYearRead ==
  /\ lastOp.op = "get_month" /\ lastOp.ret = 12
  /\ dates.given = <<2103, 12, 31>>
  /\ dates.m_raw = 127 * 512 + 12 * 32 + 31

\* C25: Date(year, month, day) throws DateError exactly when the year is
\* outside 1976 .. 2103, or the month outside 1 .. 12, or the day outside
\* 1 .. 31; the day is not compared with the length of the month.
C25_DateRefusedExactlyOutOfRange ==
  lastOp.op = "Date"
    => /\ lastOp.res = "error" <=> ~ GivenInRange
       /\ dates.built = lastOp.res

\* the 31st of February 2008 was accepted
C25_FebruaryThirtyFirstAccepted ==
  /\ lastOp.op = "Date" /\ lastOp.res = "ok"
  /\ dates.given = <<2008, 2, 31>>

---------------------------------------------------------------------------
(* Properties of SpecPair.                                                 *)

\* the operations C26 names
PairMutators == {"replace", "delete_file", "set_title", "set_date"}

\* the four blocks of the directory area that starts at block start
AreaBlocks(start) == start .. (start + BLOCKS_PER_DIRECTORY - 1)

BufferOffsets == 0 .. (BLOCKS_PER_DIRECTORY * BYTES_PER_BLOCK - 1)

\* the offsets of the fields of slot i in the directory buffer
SlotFieldOffsets(i) ==
  LET fn == FILENAME + i * (FILENAME_CHARS + EXTENSION_CHARS)
  IN  {STATUS + i}
        \cup (fn .. (fn + FILENAME_CHARS + EXTENSION_CHARS - 1))
        \cup {FIRST_BLOCK + i * 2, FIRST_BLOCK + i * 2 + 1}
        \cup {LAST_BLOCK + i * 2, LAST_BLOCK + i * 2 + 1}
        \cup {FDATE + i * 2, FDATE + i * 2 + 1}

\* C26: the primary and the backup directory are independent: replace,
\* delete_file, set_title and set_date of a Directory write only the four
\* blocks of its own area, 9..12 for the primary and 13..16 for the backup,
\* and every other block of the image, the other directory's copy among
\* them, is as it was.
C26_MutationWritesOwnAreaOnly ==
  [][(nops' = nops + 1 /\ lastOp'.op \in PairMutators)
       => LET own == AreaBlocks(dirs[lastOp'.h].start)
          IN  /\ own = IF lastOp'.h = "A" THEN 9 .. 12 ELSE 13 .. 16
              /\ \A b \in (DOMAIN image) \ own : image'[b] = image[b]
              /\ dirs'[lastOp'.h].start = dirs[lastOp'.h].start]_vars

\* an entry was made in the backup directory: its area holds the entry and
\* the primary area is still as Disk::initialize left it
C26_BackupChangedBesidePrimary ==
  /\ lastOp.op = "replace" /\ lastOp.h = "B" /\ lastOp.res = "ok"
  /\ image[BACKUP] = dirs["B"].data[1]
  /\ image[BACKUP] # image[PRIMARY]
  /\ image[PRIMARY] = FreshImage(VolumeBlocks)[PRIMARY]

\* C27: delete_file sets the slot's status byte to INVALID and changes no
\* other byte of the directory buffer: the slot's filename, first block,
\* last block and date, the other slots and the volume's fields stay; and a
\* second delete_file of the same slot leaves the buffer, the free bitmap
\* and the image as the first left them.
C27_DeleteChangesStatusByteOnly ==
  [][(nops' = nops + 1 /\ lastOp'.op = "delete_file")
       => LET h == lastOp'.h
              slot == lastOp'.slot
          IN  /\ lastOp'.res = "ok"
              /\ \A off \in BufferOffsets :
                   Byte(dirs'[h].data, off) =
                     IF off = STATUS + slot THEN INVALID
                     ELSE Byte(dirs[h].data, off)
              /\ (lastOp.op = "delete_file" /\ lastOp.h = h /\ lastOp.slot = slot)
                   => /\ dirs'[h] = dirs[h]
                      /\ image' = image]_vars

\* an entry was made in slot 0 and deleted twice; its range is still in the
\* slot
C27_DeletedTwice ==
  /\ lastOp.op = "delete_file" /\ lastOp.slot = 0 /\ lastOp.h = "A"
  /\ lastOp.prev.op = "delete_file" /\ lastOp.prev.slot = 0
  /\ lastOp.prev.h = "A" /\ lastOp.prev.pre.status = VALID
  /\ get_status(dirs["A"].data, 0) = INVALID
  /\ get_first_block(dirs["A"].data, 0) = 20
  /\ get_last_block(dirs["A"].data, 0) = 25

\* C28: a replace that succeeds on slot i changes the slot's status,
\* filename, first block, last block and date and the unsorted flag, which
\* it sets nonzero, and nothing else of the buffer: the accessors of the
\* slot return the status, the upcased filename, the first block, the last
\* block and the date given, and the other slots and the volume's fields
\* are as they were.
C28_ReplaceChangesItsSlotOnly ==
  [][(nops' = nops + 1 /\ lastOp'.op = "replace" /\ lastOp'.res = "ok")
       => LET h == lastOp'.h
              i == lastOp'.slot
              a == CHOOSE a \in PairInputs : a[1] = i
              after == dirs'[h].data
          IN  /\ get_status(after, i) = a[2]
              /\ get_filename(after, i).name = Filename_upcase(a[3]).name
              /\ get_filename(after, i).ext = Filename_upcase(a[3]).ext
              /\ get_first_block(after, i) = a[4]
              /\ get_last_block(after, i) = a[5]
              /\ get_date(after, i) = SomeDate
              /\ Byte(after, DIRCHG) # 0
              /\ \A off \in BufferOffsets \ (SlotFieldOffsets(i) \cup {DIRCHG}) :
                   Byte(after, off) = Byte(dirs[h].data, off)]_vars

\* ab.t was given for slot 0 and the slot holds AB.T
C28_LowerNameStoredUpper ==
  /\ lastOp.op = "replace" /\ lastOp.res = "ok" /\ lastOp.slot = 0
  /\ get_filename(dirs[lastOp.h].data, 0).name = Pad(<<65, 66>>, FILENAME_CHARS)
  /\ get_filename(dirs[lastOp.h].data, 0).ext = Pad(<<84>>, EXTENSION_CHARS)
  /\ get_first_block(dirs[lastOp.h].data, 1) = 0

---------------------------------------------------------------------------
(* Properties of SpecWhole.                                                *)

\* block b is marked free in a bitmap
MarkedFree(bitmap, b) == b \in DOMAIN bitmap /\ bitmap[b]

\* C29: on a volume whose size is the image's 560 blocks, a block that the
\* free bitmap marks free can be written by Disk::write and read by
\* Disk::read without a bounds error, and so can every block of a run that
\* find_free_blocks returns: insert_file of a file that fits such a run
\* writes all its blocks.
C29_FreeBlocksCanBeWritten ==
  /\ (lastOp.op \in {"Disk::write", "Disk::read"}
        /\ MarkedFree(dirs["A"].bitmap, lastOp.fst))
       => lastOp.res = "ok"
  /\ (lastOp.op = "insert_file" /\ lastOp.ret # 0
        /\ \A b \in lastOp.fst .. lastOp.lst : MarkedFree(lastOp.pre.bitmap, b))
       => lastOp.res = "ok"

\* block 559 is marked free and Disk::write of it was refused
C29_LastFreeBlockRefused ==
  /\ lastOp.op = "Disk::write" /\ lastOp.res = "error"
  /\ lastOp.fst = ImageBlocks - 1
  /\ volume_size_blocks(dirs["A"].data) = ImageBlocks
  /\ MarkedFree(dirs["A"].bitmap, ImageBlocks - 1)

---------------------------------------------------------------------------
(* Filenames of the entries, under Spec.                                   *)

\* the 11 characters of slot i's filename, letters in upper case
UpperName(data, i) ==
  LET fn == Filename_upcase(get_filename(data, i))
  IN  fn.name \o fn.ext

\* C30: from a volume whose VALID entries have different filenames, after
\* any insert_file and delete_file the VALID entries of the directory still
\* have filenames that differ, letters compared without their case.
C30_ValidNamesStayDistinct ==
  \A h \in {g \in Handles : dirs[g].start # 0} :
    \A i \in ValidSlots(dirs[h].data), j \in ValidSlots(dirs[h].data) :
      i # j => UpperName(dirs[h].data, i) # UpperName(dirs[h].data, j)

\* insert_file of ab.t returned for the second time, and slots 0 and 1 are
\* VALID entries both named AB.T
C30_SameNameInsertedTwice ==
  /\ lastOp.op = "insert_file" /\ lastOp.res = "ok" /\ lastOp.slot = 1
  /\ lastOp.prev.op = "insert_file" /\ lastOp.prev.slot = 0
  /\ {0, 1} \subseteq ValidSlots(dirs["A"].data)
  /\ UpperName(dirs["A"].data, 0) = UpperName(dirs["A"].data, 1)
  /\ UpperName(dirs["A"].data, 0) = Filename_upcase(FnLower).name
                                      \o Filename_upcase(FnLower).ext

===========================================================================
